---------------------------- MODULE Spec2Model ----------------------------
(***************************************************************************)
(* A model of mcp_adapter's normalization pipeline: OpenAPIParser.parse()  *)
(* (parsers/openapi.py, parsers/base.py) and the canonical model it builds *)
(* (models/api_spec.py).                                                   *)
(*                                                                         *)
(* Python values are tagged records: None, str, number, bool, list and     *)
(* dict (an ordered sequence of <<key, value>> pairs, keys unique).        *)
(* Python strings are TLA+ strings; Len, Head, Tail, SubSeq and \o work on *)
(* them character by character.                                            *)
(***************************************************************************)
EXTENDS Integers, Sequences, FiniteSets, TLC

VARIABLES
    source,     \* BaseParser.source: the string the parser was built with
    fs,         \* environment: what the path `source` is ("missing", "file", "dir")
    net,        \* environment: how a GET of `source` would end
    content,    \* environment: the text a successful GET or read delivers
    spec,       \* OpenAPIParser.spec: the stored document (None before the load)
    pc,         \* position of the parse() call
    io,         \* the I/O operations performed, in order ("GET", "READ")
    phases,     \* the steps of parse() executed so far, in order
    servers,    \* local `servers` of parse()
    endpoints,  \* local `endpoints` of parse()
    auth,       \* local `auth` of parse()
    schemas,    \* local `schemas` of parse()
    result,     \* the NormalizedAPISpec returned, None before
    error,      \* the exception type that reached the caller, "none" otherwise
    runs,       \* what the earlier parse() calls on this document returned, in order
    api_spec,   \* BaseGenerator.api_spec: the model the generator was built with
    output_dir, \* environment: what the output directory is ("missing", "dir")
    output,     \* the files written under the output directory, in order
    gen_pc,     \* position of the generate() call
    gen_error,  \* the exception type generate() raised, "none" otherwise
    call2,      \* a second parse() call on the same parser: its position and outcome
    lookup      \* the last get_endpoint_by_name call on the returned model

\* the generator and its environment
generator == <<api_spec, output_dir, output, gen_pc, gen_error>>

\* the callers beside the parse() call that is followed step by step
callers == <<call2, lookup>>

vars == <<source, fs, net, content, spec, pc, io, phases,
          servers, endpoints, auth, schemas, result, error, runs, generator,
          callers>>

-----------------------------------------------------------------------------
(* Python values *)

Null == [t |-> "null"]
Str(s) == [t |-> "str", s |-> s]
Num(n) == [t |-> "num", n |-> n]
Bool(b) == [t |-> "bool", b |-> b]
List(xs) == [t |-> "list", xs |-> xs]
Map(kv) == [t |-> "map", kv |-> kv]

IsMap(v) == v.t = "map"
IsStr(v) == v.t = "str"

\* bool(v): None, False, 0, "", [] and {} are falsy
Truthy(v) ==
    CASE v.t = "null" -> FALSE
      [] v.t = "str" -> v.s # ""
      [] v.t = "num" -> v.n # 0
      [] v.t = "bool" -> v.b
      [] v.t = "list" -> v.xs # <<>>
      [] v.t = "map" -> v.kv # <<>>

Keys(m) == [i \in 1..Len(m.kv) |-> m.kv[i][1]]
HasKey(m, k) == \E i \in 1..Len(m.kv) : m.kv[i][1] = k
\* dict.get(k, d)
Get(m, k, d) ==
    IF HasKey(m, k)
    THEN m.kv[CHOOSE i \in 1..Len(m.kv) : m.kv[i][1] = k][2]
    ELSE d

-----------------------------------------------------------------------------
(* Python string operations *)

UpperLetters == "ABCDEFGHIJKLMNOPQRSTUVWXYZ"
LowerLetters == "abcdefghijklmnopqrstuvwxyz"

CharAt(s, i) == SubSeq(s, i, i)

\* str.startswith
StartsWith(s, p) == Len(s) >= Len(p) /\ SubSeq(s, 1, Len(p)) = p

\* c in s, for a single character c
Contains(s, c) == \E i \in 1..Len(s) : CharAt(s, i) = c

LowerChar(c) ==
    IF \E i \in 1..Len(UpperLetters) : CharAt(UpperLetters, i) = c
    THEN CharAt(LowerLetters, CHOOSE i \in 1..Len(UpperLetters) : CharAt(UpperLetters, i) = c)
    ELSE c

RECURSIVE Lower(_)
\* str.lower
Lower(s) == IF s = "" THEN "" ELSE LowerChar(Head(s)) \o Lower(Tail(s))

RECURSIVE ReplaceChar(_, _, _)
\* str.replace(a, b) for single characters a
ReplaceChar(s, a, b) ==
    IF s = "" THEN ""
    ELSE (IF Head(s) = a THEN b ELSE Head(s)) \o ReplaceChar(Tail(s), a, b)

RECURSIVE SplitFrom(_, _, _)
SplitFrom(s, sep, cur) ==
    IF s = "" THEN <<cur>>
    ELSE IF Head(s) = sep THEN <<cur>> \o SplitFrom(Tail(s), sep, "")
    ELSE SplitFrom(Tail(s), sep, cur \o Head(s))

\* str.split(sep) for a single character sep
Split(s, sep) == SplitFrom(s, sep, "")

\* the largest index of character c in s, 0 when there is none (str.rfind + 1)
RFind(s, c) ==
    IF Contains(s, c)
    THEN CHOOSE i \in 1..Len(s) :
            CharAt(s, i) = c /\ \A j \in (i + 1)..Len(s) : CharAt(s, j) # c
    ELSE 0

\* pathlib.PurePath.suffix: the last dot-separated part of the final component
PathSuffix(p) ==
    LET parts == Split(p, "/")
        name == parts[Len(parts)]
        i == RFind(name, ".")
    IN IF 1 < i /\ i < Len(name) THEN SubSeq(name, i, Len(name)) ELSE ""

-----------------------------------------------------------------------------
(* The environment: sources, the filesystem, the network, texts *)

\* is_url with the "http://" prefix forgotten
IsUrlHttpsOnly(s) == StartsWith(s, "https://")

\* BaseParser.is_url
IsUrl(s) == StartsWith(s, "http://") \/ StartsWith(s, "https://")

\* BaseParser.is_file: Path(source).exists(), true of a directory too
IsFile(s, f) == f # "missing"

Sources ==
    { "https://api.example.com/openapi.json", "http://h/spec.yaml",
      "api.json", "api.yaml", "specs/api.yml", "api.txt", "openapi",
      "HTTP://h/api.json", "ftp://h/api.json" }

FsKinds == {"missing", "file", "dir"}

\* the timeout of the GET, in seconds
FetchTimeout == 30

\* How a GET ends: whether the connection is made, the seconds the response
\* takes, and its status code.
NetOutcomes ==
    { [connect |-> FALSE, delay |-> 0, status |-> 0],
      [connect |-> TRUE, delay |-> 31, status |-> 200],
      [connect |-> TRUE, delay |-> 1, status |-> 200],
      [connect |-> TRUE, delay |-> 1, status |-> 301],
      [connect |-> TRUE, delay |-> 1, status |-> 404],
      [connect |-> TRUE, delay |-> 1, status |-> 500] }

\* client.get(..., timeout=30.0) raises a TransportError (no connection, timeout)
\* and response.raise_for_status() an HTTPStatusError (status not 2xx): both are
\* httpx.HTTPError.
RaisesHTTPError(n) ==
    \/ ~n.connect
    \/ n.delay > FetchTimeout
    \/ ~(200 <= n.status /\ n.status <= 299)

\* A text is what the decoders make of it: fmt "json" is well-formed JSON,
\* which is well-formed YAML too; fmt "yaml" is well-formed YAML that is not
\* JSON, with every mapping key quoted; fmt "yaml_plain" is the same with the
\* mapping keys written plain (200: rather than "200":); fmt "bad" is neither.
\* doc is the document the text serializes, its mapping keys as written.
Text(fmt, doc) == [fmt |-> fmt, doc |-> doc]
BadText == Text("bad", Null)

Digits == "0123456789"

\* the plain scalar is one that YAML resolves to an int: digits only
IsPlainInt(s) == s # "" /\ \A i \in 1..Len(s) : Contains(Digits, CharAt(s, i))

\* the dictionary key int(s): a key that equals no str key, "200" included
IntKey(s) == "int:" \o s

RECURSIVE ResolvePlainKeys(_)
\* the tree yaml.safe_load builds from a text whose mapping keys are plain
\* scalars: a key of digits is an int, every other key a str
ResolvePlainKeys(v) ==
    CASE v.t = "map" ->
           Map([i \in 1..Len(v.kv) |->
                  << IF IsPlainInt(v.kv[i][1]) THEN IntKey(v.kv[i][1]) ELSE v.kv[i][1],
                     ResolvePlainKeys(v.kv[i][2]) >>])
      [] v.t = "list" -> List([i \in 1..Len(v.xs) |-> ResolvePlainKeys(v.xs[i])])
      [] OTHER -> v

\* json.loads / response.json(): the document, or json.JSONDecodeError
JsonLoads(text) ==
    IF text.fmt = "json" THEN [exc |-> "none", doc |-> text.doc]
    ELSE [exc |-> "JSONDecodeError", doc |-> Null]

\* yaml.safe_load: the document, or yaml.YAMLError
YamlSafeLoad(text) ==
    IF text.fmt \in {"json", "yaml"} THEN [exc |-> "none", doc |-> text.doc]
    ELSE IF text.fmt = "yaml_plain"
    THEN [exc |-> "none", doc |-> ResolvePlainKeys(text.doc)]
    ELSE [exc |-> "YAMLError", doc |-> Null]

\* try: json  except json.JSONDecodeError: yaml
JsonThenYaml(text) ==
    IF JsonLoads(text).exc = "none" THEN JsonLoads(text) ELSE YamlSafeLoad(text)

\* _load_spec, URL branch after a successful response: only httpx.HTTPError is
\* caught around it, so a yaml.YAMLError leaves as it is.
DecodeUrl(text) == JsonThenYaml(text)

\* _load_spec, file branch: the decoder is chosen by the suffix, and every
\* exception of the decoding is wrapped in ParserError.
DecodeFile(src, text) ==
    LET sfx == PathSuffix(src)
        r == IF sfx = ".json" THEN JsonLoads(text)
             ELSE IF sfx \in {".yaml", ".yml"} THEN YamlSafeLoad(text)
             ELSE JsonThenYaml(text)
    IN IF r.exc = "none" THEN r ELSE [exc |-> "ParserError", doc |-> Null]

-----------------------------------------------------------------------------
(* OpenAPIParser.validate *)

\* "True", "False", or the exception type it raises: .get on a document that is
\* no mapping, .startswith on an `openapi` value that is no string.
Validate(doc) ==
    IF ~Truthy(doc) THEN "False"
    ELSE IF ~IsMap(doc) THEN "AttributeError"
    ELSE LET v == Get(doc, "openapi", Str("")) IN
         IF ~IsStr(v) THEN "AttributeError"
         ELSE IF ~StartsWith(v.s, "3.") THEN "False"
         ELSE IF ~HasKey(doc, "info") THEN "False"
         ELSE IF ~HasKey(doc, "paths") THEN "False"
         ELSE "True"

-----------------------------------------------------------------------------
(* models/api_spec.py: the canonical model *)

\* HTTPMethod, in the order _extract_endpoints tries the keys of a path item
Methods == <<"get", "post", "put", "patch", "delete", "head", "options">>

RECURSIVE Upper(_)
\* str.upper
Upper(s) ==
    IF s = "" THEN ""
    ELSE (IF \E i \in 1..Len(LowerLetters) : CharAt(LowerLetters, i) = Head(s)
          THEN CharAt(UpperLetters,
                      CHOOSE i \in 1..Len(LowerLetters) : CharAt(LowerLetters, i) = Head(s))
          ELSE Head(s)) \o Upper(Tail(s))

\* a or b
Or(a, b) == IF Truthy(a) THEN a ELSE b

\* [p for p in path.split("/") if p and not p.startswith("{")]
PathParts(path) ==
    SelectSeq(Split(path, "/"), LAMBDA p : p # "" /\ ~StartsWith(p, "{"))

\* MethodPrefix with PATCH left out of method_map
MethodPrefixNoPatch(path, method) ==
    CASE method = "GET" -> (IF Contains(path, "{") THEN "get" ELSE "list")
      [] method = "POST" -> "create"
      [] method = "PUT" -> "update"
      [] method = "DELETE" -> "delete"
      [] OTHER -> Lower(method)

\* method_map.get(self.method, self.method.value.lower())
MethodPrefix(path, method) ==
    CASE method = "GET" -> (IF Contains(path, "{") THEN "get" ELSE "list")
      [] method = "POST" -> "create"
      [] method = "PUT" -> "update"
      [] method = "PATCH" -> "update"
      [] method = "DELETE" -> "delete"
      [] OTHER -> Lower(method)

\* Endpoint.tool_name
ToolName(e) ==
    IF Truthy(e.operation_id)
    THEN ReplaceChar(Lower(e.operation_id.s), " ", "_")
    ELSE LET path_parts == PathParts(e.path)
             resource == IF path_parts # <<>> THEN path_parts[Len(path_parts)]
                         ELSE "resource"
         IN Lower(MethodPrefix(e.path, e.method) \o "_" \o resource)

\* Endpoint.path_parameters
PathParameters(e) == SelectSeq(e.parameters, LAMBDA p : p.location = "path")

\* Endpoint.query_parameters
QueryParameters(e) == SelectSeq(e.parameters, LAMBDA p : p.location = "query")

-----------------------------------------------------------------------------
(* OpenAPIParser: building the model from the document *)

\* OpenapiTypeToPython with "number" mapped to int
OpenapiTypeToPythonNumberInt(openapi_type) ==
    IF ~IsStr(openapi_type) THEN "Any"
    ELSE CASE openapi_type.s = "string" -> "str"
           [] openapi_type.s = "integer" -> "int"
           [] openapi_type.s = "number" -> "int"
           [] openapi_type.s = "boolean" -> "bool"
           [] openapi_type.s = "array" -> "list"
           [] openapi_type.s = "object" -> "dict"
           [] OTHER -> "Any"

\* _openapi_type_to_python: type_map.get(openapi_type, "Any")
OpenapiTypeToPython(openapi_type) ==
    IF ~IsStr(openapi_type) THEN "Any"
    ELSE CASE openapi_type.s = "string" -> "str"
           [] openapi_type.s = "integer" -> "int"
           [] openapi_type.s = "number" -> "float"
           [] openapi_type.s = "boolean" -> "bool"
           [] openapi_type.s = "array" -> "list"
           [] openapi_type.s = "object" -> "dict"
           [] OTHER -> "Any"

\* ParamLocation as ParameterLocation(param.get("in", "query")), with query
\* for a value that is no location
ParamLocationOfEnum(param) ==
    LET where == Get(param, "in", Str("query")) IN
    IF IsStr(where) /\ where.s \in {"query", "header", "path", "cookie", "body"}
    THEN where.s
    ELSE "query"

\* location_map.get(param.get("in", "query"), ParameterLocation.QUERY)
ParamLocation(param) ==
    LET where == Get(param, "in", Str("query")) IN
    IF IsStr(where) /\ where.s \in {"query", "header", "path", "cookie"}
    THEN where.s
    ELSE "query"

\* a mapping whose values are built schemas, keys in insertion order
Props(kv) == [t |-> "props", kv |-> kv]

\* BuildPropertySchema without the descent into items and properties
BuildPropertySchemaFlat(name, schema) ==
    [ name |-> name,
      type |-> Get(schema, "type", Str("string")),
      description |-> Get(schema, "description", Null),
      required |-> Get(schema, "required", Bool(FALSE)),
      default |-> Get(schema, "default", Null),
      enum |-> Get(schema, "enum", Null),
      format |-> Get(schema, "format", Null),
      pattern |-> Get(schema, "pattern", Null),
      min_length |-> Get(schema, "minLength", Null),
      max_length |-> Get(schema, "maxLength", Null),
      minimum |-> Get(schema, "minimum", Null),
      maximum |-> Get(schema, "maximum", Null),
      items |-> Null,
      properties |-> Null,
      example |-> Get(schema, "example", Null) ]

RECURSIVE BuildPropertySchema(_, _)
\* _build_property_schema
BuildPropertySchema(name, schema) ==
    LET prop_type == Get(schema, "type", Str("string"))
        items == IF prop_type = Str("array") /\ HasKey(schema, "items")
                 THEN BuildPropertySchema("item", Get(schema, "items", Null))
                 ELSE Null
        declared == Get(schema, "properties", Map(<<>>))
        properties == IF prop_type = Str("object") /\ HasKey(schema, "properties")
                      THEN Props([i \in 1..Len(declared.kv) |->
                                    <<declared.kv[i][1],
                                      BuildPropertySchema(declared.kv[i][1], declared.kv[i][2])>>])
                      ELSE Null
    IN [ name |-> name,
         type |-> prop_type,
         description |-> Get(schema, "description", Null),
         required |-> Get(schema, "required", Bool(FALSE)),
         default |-> Get(schema, "default", Null),
         enum |-> Get(schema, "enum", Null),
         format |-> Get(schema, "format", Null),
         pattern |-> Get(schema, "pattern", Null),
         min_length |-> Get(schema, "minLength", Null),
         max_length |-> Get(schema, "maxLength", Null),
         minimum |-> Get(schema, "minimum", Null),
         maximum |-> Get(schema, "maximum", Null),
         items |-> items,
         properties |-> properties,
         example |-> Get(schema, "example", Null) ]

RECURSIVE PropertySchemaRaises(_)
\* PropertySchema(...) raises pydantic's ValidationError: `required: bool` takes
\* a bool, not the list of names an object schema declares as `required`, nor
\* None. The nested schemas are constructed the same way, before this one.
PropertySchemaRaises(p) ==
    \/ p.required.t # "bool"
    \/ p.items # Null /\ PropertySchemaRaises(p.items)
    \/ /\ p.properties # Null
       /\ \E i \in 1..Len(p.properties.kv) : PropertySchemaRaises(p.properties.kv[i][2])

\* _build_schema_model
BuildSchemaModel(name, schema) ==
    LET declared == Get(schema, "properties", Map(<<>>)) IN
    [ name |-> name,
      description |-> Get(schema, "description", Null),
      properties |-> Props([i \in 1..Len(declared.kv) |->
                              <<declared.kv[i][1],
                                BuildPropertySchema(declared.kv[i][1], declared.kv[i][2])>>]),
      required |-> Get(schema, "required", List(<<>>)),
      example |-> Get(schema, "example", Null) ]

\* SchemaModel(...) raises pydantic's ValidationError: `required: List[str]`
\* takes a list, `example: Optional[Dict[str, Any]]` a mapping or None; its
\* properties are constructed before it.
SchemaModelRaises(m) ==
    \/ \E i \in 1..Len(m.properties.kv) : PropertySchemaRaises(m.properties.kv[i][2])
    \/ m.required.t # "list"
    \/ m.example.t \notin {"null", "map"}

\* models/api_spec.py: the defaults of the optional fields of Parameter
ParameterDefaults ==
    [ description |-> Null, required |-> FALSE, default |-> Null,
      schema |-> Null, example |-> Null ]

\* Parameter(**kwargs): a keyword that names a field sets it, a field without
\* keyword keeps its default, a keyword that names no field is ignored
\* (pydantic's default for extra keywords)
Parameter(kwargs) ==
    [ f \in {"name", "location", "type"} \cup DOMAIN ParameterDefaults |->
        IF f \in DOMAIN kwargs THEN kwargs[f] ELSE ParameterDefaults[f] ]

\* _build_parameter: the PropertySchema is passed under the keyword
\* `param_schema`
BuildParameter(param) ==
    LET schema == Get(param, "schema", Map(<<>>))
        param_type == OpenapiTypeToPython(Get(schema, "type", Str("string")))
    IN Parameter(
       [ name |-> Get(param, "name", Str("")).s,
         location |-> ParamLocation(param),
         type |-> param_type,
         description |-> Get(param, "description", Null),
         required |-> Get(param, "required", Bool(FALSE)).b,
         default |-> Get(schema, "default", Null),
         param_schema |-> BuildPropertySchema(Get(param, "name", Str("")).s, schema),
         example |-> Or(Get(param, "example", Null), Get(schema, "example", Null)) ])

\* BuildRequestBody without the fallback to the form entry
BuildRequestBodyJsonOnly(request_body) ==
    LET body == Get(request_body, "content", Map(<<>>))
        media_type == Get(body, "application/json", Null)
    IN IF ~Truthy(media_type) THEN Null
       ELSE BuildSchemaModel("RequestBody", Get(media_type, "schema", Map(<<>>)))

\* _build_request_body
BuildRequestBody(request_body) ==
    LET body == Get(request_body, "content", Map(<<>>))
        media_type == Or(Get(body, "application/json", Null),
                         Get(body, "application/x-www-form-urlencoded", Null))
    IN IF ~Truthy(media_type) THEN Null
       ELSE BuildSchemaModel("RequestBody", Get(media_type, "schema", Map(<<>>)))

\* _build_response_schema
BuildResponseSchema(response) ==
    LET body == Get(response, "content", Map(<<>>))
        media_type == Get(body, "application/json", Null)
    IN IF ~Truthy(media_type) THEN Null
       ELSE BuildSchemaModel("Response", Get(media_type, "schema", Map(<<>>)))

\* BuildEndpoint falling through to "201" when "200" yields no schema
BuildEndpointFallThrough(path, method, operation) ==
    LET params == Get(operation, "parameters", List(<<>>)).xs
        responses == Get(operation, "responses", Map(<<>>))
        ok == IF HasKey(responses, "200")
              THEN BuildResponseSchema(Get(responses, "200", Null)) ELSE Null
        created == IF HasKey(responses, "201")
                   THEN BuildResponseSchema(Get(responses, "201", Null)) ELSE Null
    IN [ path |-> path,
         method |-> method,
         operation_id |-> Get(operation, "operationId", Null),
         parameters |-> [i \in 1..Len(params) |-> BuildParameter(params[i])],
         request_body |-> IF HasKey(operation, "requestBody")
                          THEN BuildRequestBody(Get(operation, "requestBody", Null))
                          ELSE Null,
         response_schema |-> IF ok # Null THEN ok ELSE created ]

\* _build_endpoint (summary, description, tags, deprecated and externalDocs are
\* copied from the operation and are left out)
BuildEndpoint(path, method, operation) ==
    LET params == Get(operation, "parameters", List(<<>>)).xs
        responses == Get(operation, "responses", Map(<<>>))
    IN [ path |-> path,
         method |-> method,
         operation_id |-> Get(operation, "operationId", Null),
         parameters |-> [i \in 1..Len(params) |-> BuildParameter(params[i])],
         request_body |-> IF HasKey(operation, "requestBody")
                          THEN BuildRequestBody(Get(operation, "requestBody", Null))
                          ELSE Null,
         response_schema |-> IF HasKey(responses, "200")
                             THEN BuildResponseSchema(Get(responses, "200", Null))
                             ELSE IF HasKey(responses, "201")
                             THEN BuildResponseSchema(Get(responses, "201", Null))
                             ELSE Null ]

\* the exception the building of an operation's endpoint raises, "none" when the
\* endpoint is built: the PropertySchema of each parameter (constructed, then
\* dropped), the request body and the response schema are validated
OperationRaises(operation) ==
    LET params == Get(operation, "parameters", List(<<>>)).xs
        built == BuildEndpoint("", "GET", operation)
    IN IF \/ \E i \in 1..Len(params) :
               PropertySchemaRaises(
                   BuildPropertySchema(Get(params[i], "name", Str("")).s,
                                       Get(params[i], "schema", Map(<<>>))))
          \/ built.request_body # Null /\ SchemaModelRaises(built.request_body)
          \/ built.response_schema # Null /\ SchemaModelRaises(built.response_schema)
       THEN "ValidationError"
       ELSE "none"

\* the exception the inner loop of _extract_endpoints raises on a path item,
\* "none" when its endpoints are built: `method not in path_item` on None
PathItemRaises(path_item) ==
    IF path_item = Null THEN "TypeError"
    ELSE IF \E m \in 1..Len(Methods) :
               /\ HasKey(path_item, Methods[m])
               /\ OperationRaises(Get(path_item, Methods[m], Null)) # "none"
    THEN "ValidationError"
    ELSE "none"

\* PathItemEndpoints iterating the keys of the path item, in document order
PathItemEndpointsInKeyOrder(path, path_item) ==
    LET present == SelectSeq(Keys(path_item),
                             LAMBDA k : \E m \in 1..Len(Methods) : Methods[m] = k) IN
    [j \in 1..Len(present) |->
        BuildEndpoint(path, Upper(present[j]), Get(path_item, present[j], Null))]

\* the inner loop of _extract_endpoints: the endpoints of one path item
PathItemEndpoints(path, path_item) ==
    LET present == SelectSeq(Methods, LAMBDA m : HasKey(path_item, m)) IN
    [j \in 1..Len(present) |->
        BuildEndpoint(path, Upper(present[j]), Get(path_item, present[j], Null))]

RECURSIVE EndpointsFrom(_, _)
\* the outer loop of _extract_endpoints, from the i-th entry of `paths` on
EndpointsFrom(kv, i) ==
    IF i > Len(kv) THEN <<>>
    ELSE PathItemEndpoints(kv[i][1], kv[i][2]) \o EndpointsFrom(kv, i + 1)

RECURSIVE UniqueNames(_)
\* the endpoints whose tool name no earlier endpoint has
UniqueNames(es) ==
    IF es = <<>> THEN <<>>
    ELSE LET front == UniqueNames(SubSeq(es, 1, Len(es) - 1))
             last == es[Len(es)]
         IN IF \E j \in 1..Len(front) : ToolName(front[j]) = ToolName(last)
            THEN front ELSE Append(front, last)

\* ExtractEndpoints dropping an endpoint whose tool name is taken
ExtractEndpointsUnique(doc) ==
    LET paths == Get(doc, "paths", Map(<<>>)) IN
    IF ~IsMap(paths) THEN [exc |-> "AttributeError", val |-> <<>>]
    ELSE IF \E i \in 1..Len(paths.kv) : paths.kv[i][2] = Null
    THEN [exc |-> "TypeError", val |-> <<>>]
    ELSE [exc |-> "none", val |-> UniqueNames(EndpointsFrom(paths.kv, 1))]

\* _extract_endpoints: the list, or the exception it raises: paths.items() on a
\* `paths` that is no mapping, else that of the first path item that raises one
ExtractEndpoints(doc) ==
    LET paths == Get(doc, "paths", Map(<<>>)) IN
    IF ~IsMap(paths) THEN [exc |-> "AttributeError", val |-> <<>>]
    ELSE LET raising == { i \in 1..Len(paths.kv) : PathItemRaises(paths.kv[i][2]) # "none" } IN
         IF raising # {}
         THEN [exc |-> PathItemRaises(
                          paths.kv[CHOOSE i \in raising : \A j \in raising : i <= j][2]),
               val |-> <<>>]
         ELSE [exc |-> "none", val |-> EndpointsFrom(paths.kv, 1)]

\* _extract_servers
ExtractServers(doc) ==
    LET declared == Get(doc, "servers", List(<<>>)).xs IN
    [i \in 1..Len(declared) |->
        [ url |-> Get(declared[i], "url", Str("")),
          description |-> Get(declared[i], "description", Null),
          variables |-> Get(declared[i], "variables", Map(<<>>)) ]]

\* ParameterLocation
ParameterLocations == {"query", "header", "path", "body", "cookie"}

\* AuthConfig, with the defaults of its fields
AuthConfig(type, fields) ==
    [ type |-> type,
      name |-> IF "name" \in DOMAIN fields THEN fields.name ELSE Str("auth"),
      location |-> IF "location" \in DOMAIN fields THEN fields.location ELSE "header",
      scheme |-> IF "scheme" \in DOMAIN fields THEN fields.scheme ELSE Null,
      description |-> fields.description,
      authorization_url |-> IF "authorization_url" \in DOMAIN fields
                            THEN fields.authorization_url ELSE Null,
      token_url |-> IF "token_url" \in DOMAIN fields THEN fields.token_url ELSE Null,
      scopes |-> IF "scopes" \in DOMAIN fields THEN fields.scopes ELSE Map(<<>>) ]

\* _extract_auth: the AuthConfig or None, or the exception it raises:
\* ParameterLocation(x) is a ValueError for an x that is no location
ExtractAuth(doc) ==
    LET security_schemes == Get(Get(doc, "components", Map(<<>>)), "securitySchemes", Map(<<>>))
    IN
    IF ~Truthy(security_schemes) THEN [exc |-> "none", val |-> Null]
    ELSE
    LET scheme == security_schemes.kv[1][2]
        scheme_type == Lower(Get(scheme, "type", Str("")).s)
        about == Get(scheme, "description", Null)
        http_scheme == Lower(Get(scheme, "scheme", Str("")).s)
        flows == Get(scheme, "flows", Map(<<>>))
        flow == Or(Or(Get(flows, "authorizationCode", Null), Get(flows, "implicit", Null)),
                   Get(flows, "password", Null))
        where == Get(scheme, "in", Str("header"))
    IN
    IF scheme_type = "apikey"
    THEN IF IsStr(where) /\ where.s \in ParameterLocations
         THEN [exc |-> "none",
               val |-> AuthConfig("api_key",
                          [ name |-> Get(scheme, "name", Str("api_key")),
                            location |-> where.s, description |-> about ])]
         ELSE [exc |-> "ValueError", val |-> Null]
    ELSE IF scheme_type = "http" /\ http_scheme = "bearer"
    THEN [exc |-> "none",
          val |-> AuthConfig("bearer", [scheme |-> Str("Bearer"), description |-> about])]
    ELSE IF scheme_type = "http" /\ http_scheme = "basic"
    THEN [exc |-> "none",
          val |-> AuthConfig("basic", [scheme |-> Str("Basic"), description |-> about])]
    ELSE IF scheme_type = "oauth2" /\ Truthy(flow)
    THEN [exc |-> "none",
          val |-> AuthConfig("oauth2",
                     [ authorization_url |-> Get(flow, "authorizationUrl", Null),
                       token_url |-> Get(flow, "tokenUrl", Null),
                       scopes |-> Get(flow, "scopes", Map(<<>>)),
                       description |-> about ])]
    ELSE [exc |-> "none", val |-> Null]

\* _extract_schemas: the mapping of the schemas, or the exception the building
\* of one of them raises
ExtractSchemas(doc) ==
    LET components == Get(Get(doc, "components", Map(<<>>)), "schemas", Map(<<>>))
        built == Props([i \in 1..Len(components.kv) |->
                          <<components.kv[i][1],
                            BuildSchemaModel(components.kv[i][1], components.kv[i][2])>>])
    IN IF \E i \in 1..Len(built.kv) : SchemaModelRaises(built.kv[i][2])
       THEN [exc |-> "ValidationError", val |-> Props(<<>>)]
       ELSE [exc |-> "none", val |-> built]

-----------------------------------------------------------------------------
(* OpenAPIParser.parse, step by step *)

\* an exception leaves parse() and reaches the caller
Raise(exc) == pc' = "failed" /\ error' = exc

\* _load_spec, URL branch: the GET is issued and parse() is suspended in it
ParseLoadSend ==
    /\ pc = "start"
    /\ IsUrl(source)
    /\ pc' = "awaiting"
    /\ io' = Append(io, "GET")
    /\ phases' = Append(phases, "load")
    /\ UNCHANGED <<runs, generator, callers>>
    /\ UNCHANGED <<source, fs, net, content, spec, servers, endpoints, auth,
                   schemas, result, error>>

\* ParseLoadReceive with a failed GET issued again
ParseLoadReceiveRetry ==
    /\ pc = "awaiting"
    /\ IF RaisesHTTPError(net)
       THEN pc' = "awaiting" /\ io' = Append(io, "GET") /\ spec' = spec /\ error' = error
       ELSE LET r == DecodeUrl(content) IN
            /\ io' = io
            /\ IF r.exc = "none"
               THEN spec' = r.doc /\ pc' = "loaded" /\ error' = error
               ELSE Raise(r.exc) /\ spec' = spec
    /\ UNCHANGED <<runs, generator, callers>>
    /\ UNCHANGED <<source, fs, net, content, phases, servers, endpoints,
                   auth, schemas, result>>

\* _load_spec, URL branch: the GET ends and the response is decoded
ParseLoadReceive ==
    /\ pc = "awaiting"
    /\ IF RaisesHTTPError(net)
       THEN Raise("ParserNetworkError") /\ spec' = spec
       ELSE LET r == DecodeUrl(content) IN
            IF r.exc = "none"
            THEN spec' = r.doc /\ pc' = "loaded" /\ error' = error
            ELSE Raise(r.exc) /\ spec' = spec
    /\ UNCHANGED <<runs, generator, callers>>
    /\ UNCHANGED <<source, fs, net, content, io, phases, servers, endpoints,
                   auth, schemas, result>>

\* _load_spec, file branch: path.read_text() (outside the try) and the decoding
ParseLoadFile ==
    /\ pc = "start"
    /\ ~IsUrl(source)
    /\ IsFile(source, fs)
    /\ io' = Append(io, "READ")
    /\ phases' = Append(phases, "load")
    /\ IF fs = "dir"
       THEN Raise("IsADirectoryError") /\ spec' = spec
       ELSE LET r == DecodeFile(source, content) IN
            IF r.exc = "none"
            THEN spec' = r.doc /\ pc' = "loaded" /\ error' = error
            ELSE Raise(r.exc) /\ spec' = spec
    /\ UNCHANGED <<runs, generator, callers>>
    /\ UNCHANGED <<source, fs, net, content, servers, endpoints, auth, schemas,
                   result>>

\* _load_spec, else branch: neither a URL nor an existing path
ParseLoadNotFound ==
    /\ pc = "start"
    /\ ~IsUrl(source)
    /\ ~IsFile(source, fs)
    /\ phases' = Append(phases, "load")
    /\ Raise("ParserError")
    /\ UNCHANGED <<runs, generator, callers>>
    /\ UNCHANGED <<source, fs, net, content, spec, io, servers, endpoints, auth,
                   schemas, result>>

\* parse, step 2: if not self.validate(): raise ParserValidationError
ParseValidate ==
    /\ pc = "loaded"
    /\ phases' = Append(phases, "validate")
    /\ LET v == Validate(spec) IN
       IF v = "True" THEN pc' = "validated" /\ error' = error
       ELSE IF v = "False" THEN Raise("ParserValidationError")
       ELSE Raise(v)
    /\ UNCHANGED <<runs, generator, callers>>
    /\ UNCHANGED <<source, fs, net, content, spec, io, servers, endpoints, auth,
                   schemas, result>>

\* parse, step 3: servers = self._extract_servers()
ParseExtractServers ==
    /\ pc = "validated"
    /\ phases' = Append(phases, "servers")
    /\ servers' = ExtractServers(spec)
    /\ pc' = "servers"
    /\ UNCHANGED <<runs, generator, callers>>
    /\ UNCHANGED <<source, fs, net, content, spec, io, endpoints, auth, schemas,
                   result, error>>

\* ParseExtractEndpoints with one list shared by all calls: the endpoints of the
\* earlier calls stay in it
ParseExtractEndpointsShared ==
    /\ pc = "servers"
    /\ phases' = Append(phases, "endpoints")
    /\ LET r == ExtractEndpoints(spec)
           earlier == IF runs # <<>> /\ runs[Len(runs)].result # Null
                      THEN runs[Len(runs)].result.endpoints
                      ELSE <<>>
       IN IF r.exc = "none"
          THEN endpoints' = earlier \o r.val /\ pc' = "endpoints" /\ error' = error
          ELSE Raise(r.exc) /\ endpoints' = endpoints
    /\ UNCHANGED <<runs, generator, callers>>
    /\ UNCHANGED <<source, fs, net, content, spec, io, servers, auth, schemas,
                   result>>

\* parse, step 3: endpoints = self._extract_endpoints()
ParseExtractEndpoints ==
    /\ pc = "servers"
    /\ phases' = Append(phases, "endpoints")
    /\ LET r == ExtractEndpoints(spec) IN
       IF r.exc = "none"
       THEN endpoints' = r.val /\ pc' = "endpoints" /\ error' = error
       ELSE Raise(r.exc) /\ endpoints' = endpoints
    /\ UNCHANGED <<runs, generator, callers>>
    /\ UNCHANGED <<source, fs, net, content, spec, io, servers, auth, schemas,
                   result>>

\* parse, step 3: auth = self._extract_auth()
ParseExtractAuth ==
    /\ pc = "endpoints"
    /\ phases' = Append(phases, "auth")
    /\ LET r == ExtractAuth(spec) IN
       IF r.exc = "none"
       THEN auth' = r.val /\ pc' = "auth" /\ error' = error
       ELSE Raise(r.exc) /\ auth' = auth
    /\ UNCHANGED <<runs, generator, callers>>
    /\ UNCHANGED <<source, fs, net, content, spec, io, servers, endpoints,
                   schemas, result>>

\* parse, step 3: schemas = self._extract_schemas()
ParseExtractSchemas ==
    /\ pc = "auth"
    /\ phases' = Append(phases, "schemas")
    /\ LET r == ExtractSchemas(spec) IN
       IF r.exc = "none"
       THEN schemas' = r.val /\ pc' = "schemas" /\ error' = error
       ELSE Raise(r.exc) /\ schemas' = schemas
    /\ UNCHANGED <<runs, generator, callers>>
    /\ UNCHANGED <<source, fs, net, content, spec, io, servers,
                   endpoints, auth, result>>

\* parse, step 4: return NormalizedAPISpec(...) (contact, license, external_docs
\* and tags are copied from the document and are left out)
ParseReturn ==
    /\ pc = "schemas"
    /\ phases' = Append(phases, "return")
    /\ LET info == Get(spec, "info", Map(<<>>)) IN
       result' = [ name |-> Get(info, "title", Str("Unknown API")),
                   version |-> Get(info, "version", Str("1.0.0")),
                   description |-> Get(info, "description", Null),
                   servers |-> servers,
                   endpoints |-> endpoints,
                   auth |-> auth,
                   schemas |-> schemas,
                   source_format |-> "openapi",
                   source_url |-> IF IsUrl(source) THEN Str(source) ELSE Null,
                   base_url |-> IF servers # <<>> THEN servers[1].url ELSE Null ]
    /\ pc' = "done"
    /\ UNCHANGED <<runs, generator, callers>>
    /\ UNCHANGED <<source, fs, net, content, spec, io, servers, endpoints, auth,
                   schemas, error>>

\* the number of further parse() calls on a document
MaxRuns == 2

\* a further call of parse(), with its own locals: what the call that ended
\* returned or raised is kept for comparison
NewCall ==
    /\ pc \in {"done", "failed"}
    /\ Len(runs) < MaxRuns
    /\ runs' = Append(runs, [result |-> result, error |-> error])
    /\ pc' = "start"
    /\ io' = <<>>
    /\ phases' = <<>>
    /\ servers' = <<>>
    /\ endpoints' = <<>>
    /\ auth' = Null
    /\ schemas' = Props(<<>>)
    /\ result' = Null
    /\ error' = "none"
    /\ UNCHANGED <<generator, callers, source, fs, net, content>>

\* parse() is called again on the same parser: self.spec holds the document of
\* the call before
ParseAgain == NewCall /\ spec' = spec

\* parse() is called on another parser built on the same source
ParseAnew == NewCall /\ spec' = Null

\* the steps of parse() after a load from a file
NextFile ==
    \/ ParseLoadFile
    \/ ParseValidate
    \/ ParseExtractServers
    \/ ParseExtractEndpoints
    \/ ParseExtractAuth
    \/ ParseExtractSchemas
    \/ ParseReturn

Next ==
    \/ ParseLoadSend
    \/ ParseLoadReceive
    \/ ParseLoadNotFound
    \/ NextFile

\* no generator has been built
NoGenerator ==
    /\ api_spec = Null
    /\ output_dir = "missing"
    /\ output = <<>>
    /\ gen_pc = "none"
    /\ gen_error = "none"

\* parse() has one caller, and nothing has been looked up
NoCallers ==
    /\ call2 = [pc |-> "none", result |-> Null, error |-> "none"]
    /\ lookup = Null

\* the state after OpenAPIParser(source), in a given environment
Fresh ==
    /\ spec = Null
    /\ pc = "start"
    /\ io = <<>>
    /\ phases = <<>>
    /\ servers = <<>>
    /\ endpoints = <<>>
    /\ auth = Null
    /\ schemas = Props(<<>>)
    /\ result = Null
    /\ error = "none"
    /\ runs = <<>>
    /\ NoGenerator
    /\ NoCallers

-----------------------------------------------------------------------------
(* Documents *)

\* a key that a document does not have
Absent == [t |-> "absent"]

\* the mapping with the given <<key, value>> entries, those of value Absent left out
MkMap(fields) == Map(SelectSeq(fields, LAMBDA f : f[2] # Absent))

PetInfo == Map(<< <<"title", Str("Pet Store API")>>, <<"version", Str("1.0.0")>> >>)

PetIdParam ==
    Map(<< <<"name", Str("petId")>>, <<"in", Str("path")>>, <<"required", Bool(TRUE)>>,
           <<"schema", Map(<< <<"type", Str("string")>> >>)>> >>)

LimitParam ==
    Map(<< <<"name", Str("limit")>>, <<"in", Str("query")>>,
           <<"schema", Map(<< <<"type", Str("integer")>> >>)>> >>)

PetPaths ==
    Map(<< <<"/pets",
             Map(<< <<"get", Map(<< <<"operationId", Str("listPets")>>,
                                    <<"parameters", List(<<LimitParam>>)>> >>)>>,
                    <<"post", Map(<< <<"operationId", Str("createPet")>> >>)>> >>)>>,
           <<"/pets/{petId}",
             Map(<< <<"get", Map(<< <<"operationId", Str("getPet")>>,
                                    <<"parameters", List(<<PetIdParam>>)>> >>)>> >>)>> >>)

BearerComponents ==
    Map(<< <<"securitySchemes",
             Map(<< <<"bearerAuth", Map(<< <<"type", Str("http")>>,
                                           <<"scheme", Str("bearer")>> >>)>> >>)>> >>)

PetServers == List(<< Map(<< <<"url", Str("https://api.petstore.example.com/v1")>> >>) >>)

\* the values of the top-level `openapi` key
OpenapiOptions ==
    { Absent, Str("3.0.3"), Str("3.1.0"), Str("2.0"), Str("3"), Str("30.1"), Num(3), Null }

InfoOptions == { Absent, PetInfo }

PathsOptions == { Absent, Null, Map(<<>>), PetPaths }

\* documents that are mappings
MapDocs ==
    { MkMap(<< <<"openapi", o>>, <<"info", i>>, <<"servers", PetServers>>,
               <<"paths", p>>, <<"components", BearerComponents>> >>) :
        o \in OpenapiOptions, i \in InfoOptions, p \in PathsOptions }

\* documents that are not mappings, or are empty
OtherDocs ==
    { Null, Map(<<>>), List(<<>>), Str(""), Num(0), Bool(FALSE),
      List(<<Str("openapi")>>), Str("Not Found"), Num(404), Bool(TRUE) }

TopDocs == MapDocs \cup OtherDocs

TextsOf(docs) == { Text(f, d) : f \in {"json", "yaml"}, d \in docs } \cup { BadText }

\* a parser on any source, in any environment (a source that is no URL is
\* never fetched: its network outcome is left at one value)
Init ==
    /\ source \in Sources
    /\ fs \in FsKinds
    /\ net \in IF IsUrl(source) THEN NetOutcomes
               ELSE { [connect |-> FALSE, delay |-> 0, status |-> 0] }
    /\ content \in TextsOf(TopDocs)
    /\ Fresh

Spec == Init /\ [][Next]_vars

-----------------------------------------------------------------------------
(* Properties of the load and the validation *)

Range(seq) == { seq[i] : i \in 1..Len(seq) }

IsPrefix(a, b) == Len(a) <= Len(b) /\ SubSeq(b, 1, Len(a)) = a

ParserErrors == {"ParserError", "ParserValidationError", "ParserNetworkError"}

PhaseOrder == <<"load", "validate", "servers", "endpoints", "auth", "schemas", "return">>

\* the document has the top-level key k
HasTop(doc, k) == IsMap(doc) /\ HasKey(doc, k)

\* the document's top-level `openapi` value starts with "3."
OpenapiIs3(doc) ==
    /\ HasTop(doc, "openapi")
    /\ IsStr(Get(doc, "openapi", Null))
    /\ StartsWith(Get(doc, "openapi", Null).s, "3.")

\* C1: once validation has run, parse() has failed with ParserValidationError if
\* the loaded document is empty, its `openapi` value is absent or does not start
\* with "3.", or it has no `info` or no `paths` key; and for every other document
\* validation has passed and validate() returns True.
C1_ValidationGate ==
    "validate" \in Range(phases) =>
        IF \/ ~Truthy(spec)
           \/ ~OpenapiIs3(spec)
           \/ ~HasTop(spec, "info")
           \/ ~HasTop(spec, "paths")
        THEN pc = "failed" /\ error = "ParserValidationError"
        ELSE error # "ParserValidationError" /\ Validate(spec) = "True"

\* C2 (state part): the steps of parse() run in the order load, validate,
\* servers, endpoints, auth, schemas, return; at most one I/O operation is ever
\* performed and exactly one has been once validation starts; after a failed
\* validation no extraction step has run; a model is returned only after all steps.
C2_PhaseOrderState ==
    /\ IsPrefix(phases, PhaseOrder)
    /\ Len(io) <= 1
    /\ pc = "awaiting" => phases = <<"load">> /\ io = <<"GET">>
    /\ "validate" \in Range(phases) => Len(io) = 1
    /\ error = "ParserValidationError" =>
          /\ phases = <<"load", "validate">>
          /\ servers = <<>> /\ endpoints = <<>> /\ auth = Null
          /\ schemas = Props(<<>>) /\ result = Null
    /\ result # Null => phases = PhaseOrder /\ pc = "done"

\* C2: phase ordering of one parse(): one load (one GET or one read, never
\* retried), then validation, then extraction; nothing is extracted or returned
\* after a failed validation; no I/O is performed once the load is over.
C2_PhaseOrdering ==
    /\ []C2_PhaseOrderState
    /\ [][pc \notin {"start", "awaiting"} => io' = io]_vars
    /\ [][Len(phases') <= Len(phases) + 1]_vars

\* a parse of a URL source that returned a model
C2_Witness ==
    /\ pc = "done"
    /\ io = <<"GET">>
    /\ phases = PhaseOrder
    /\ result # Null

\* C3: a parse() that fails does so with ParserError, ParserValidationError or
\* ParserNetworkError, and a model is only ever returned complete.
C3_ErrorTaxonomy ==
    /\ pc = "failed" => error \in ParserErrors
    /\ pc # "done" => result = Null

\* C4: a source is fetched exactly when it starts with "http://" or "https://"
\* (whatever the filesystem holds), otherwise read exactly when the path exists;
\* a fetch that gets no connection, times out or gets a status that is not 2xx
\* ends in ParserNetworkError; a source that is neither ends in ParserError with
\* no fetch and no read.
C4_SourceClassification ==
    LET url == StartsWith(source, "http://") \/ StartsWith(source, "https://") IN
    pc # "start" =>
        /\ "GET" \in Range(io) <=> url
        /\ "READ" \in Range(io) <=> ~url /\ fs # "missing"
        /\ ( /\ url
             /\ pc # "awaiting"
             /\ \/ ~net.connect
                \/ net.delay > FetchTimeout
                \/ net.status < 200
                \/ net.status > 299 )
           => pc = "failed" /\ error = "ParserNetworkError"
        /\ (~url /\ fs = "missing")
           => pc = "failed" /\ error = "ParserError" /\ io = <<>>

\* a source that starts with "http://" and names an existing file is fetched, and
\* the 404 it gets is a ParserNetworkError
C4_Witness ==
    /\ pc = "failed"
    /\ error = "ParserNetworkError"
    /\ StartsWith(source, "http://")
    /\ fs = "file"
    /\ net.status = 404
    /\ io = <<"GET">>

\* the text cannot be decoded by the decoders that apply to the source
Undecodable(src, text) ==
    LET url == StartsWith(src, "http://") \/ StartsWith(src, "https://") IN
    IF ~url /\ PathSuffix(src) = ".json" THEN text.fmt # "json"
    ELSE text.fmt = "bad"

\* C5: whenever the text fetched or read cannot be decoded by the decoders that
\* apply to the source, parse() fails with ParserError and the load is its only step.
C5_DecodeFailure ==
    LET url == StartsWith(source, "http://") \/ StartsWith(source, "https://")
        delivered == IF url THEN pc \notin {"start", "awaiting"} /\ ~RaisesHTTPError(net)
                     ELSE pc # "start" /\ fs = "file"
    IN (delivered /\ Undecodable(source, content)) =>
          pc = "failed" /\ error = "ParserError" /\ phases = <<"load">>

-----------------------------------------------------------------------------
(* Documents that vary in their paths: endpoint extraction *)

\* the sequences of at most n distinct elements of S
DistinctSeqs(S, n) ==
    UNION { { f \in [1..k -> S] : \A i, j \in 1..k : i # j => f[i] # f[j] } : k \in 0..n }

\* the number of paths of a document
MaxPaths == 2

\* the number of keys of the first path item of a document
MaxItemKeys == 2

EndpointPaths == { "/a/items", "/b/items", "/a/items/{id}" }

\* the keys of a path item: the seven methods and a key that is no method
ItemKeys == { "get", "post", "put", "patch", "delete", "head", "options", "parameters" }

\* the path items after the first
SmallItems == { <<"get">>, <<"patch", "put", "get">> }

\* the path item with the given keys, in that order; only a POST operation
\* declares something, an operationId
ItemOf(keys) ==
    Map([i \in 1..Len(keys) |->
            <<keys[i],
              IF keys[i] = "parameters" THEN List(<<>>)
              ELSE IF keys[i] = "post"
                   THEN Map(<< <<"operationId", Str("List Items")>> >>)
                   ELSE Map(<<>>)>>])

\* a valid document with the given `paths`
DocOf(paths) ==
    Map(<< <<"openapi", Str("3.0.3")>>, <<"info", PetInfo>>, <<"paths", paths>> >>)

EndpointDocs ==
    { DocOf(Map([i \in 1..Len(names) |->
                    <<names[i], ItemOf(IF i = 1 THEN first ELSE rest[i - 1])>>])) :
        names \in DistinctSeqs(EndpointPaths, MaxPaths),
        first \in DistinctSeqs(ItemKeys, MaxItemKeys),
        rest \in [1..(MaxPaths - 1) -> SmallItems] }

\* a parser on a YAML file that holds one of the given documents
InitFile(docs) ==
    /\ source = "api.yaml"
    /\ fs = "file"
    /\ net = [connect |-> FALSE, delay |-> 0, status |-> 0]
    /\ content \in { Text("yaml", d) : d \in docs }
    /\ Fresh

InitEndpoints == InitFile(EndpointDocs)

SpecEndpoints == InitEndpoints /\ [][NextFile]_vars

\* the fixed method order, as keys and as HTTPMethod values
KeyOrder == <<"get", "post", "put", "patch", "delete", "head", "options">>
MethodOrder == <<"GET", "POST", "PUT", "PATCH", "DELETE", "HEAD", "OPTIONS">>

\* the entries of the stored document's `paths`
DocPaths == Get(spec, "paths", Map(<<>>)).kv

\* the <<path index, method index>> pairs the document declares
DeclaredOps ==
    { <<i, m>> \in (1..Len(DocPaths)) \X (1..Len(KeyOrder)) : HasKey(DocPaths[i][2], KeyOrder[m]) }

\* the <<path index, method index>> of an endpoint of the model
PlaceOf(e) ==
    CHOOSE im \in (1..Len(DocPaths)) \X (1..Len(MethodOrder)) :
        DocPaths[im[1]][1] = e.path /\ MethodOrder[im[2]] = e.method

\* C6: the returned model has exactly one endpoint for each (path, method) with
\* method one of the seven and a key of the path's item, and no other endpoint;
\* the endpoints are ordered by path in document order and, within a path, by
\* the order get, post, put, patch, delete, head, options.
C6_EndpointExtraction ==
    pc = "done" =>
        LET es == result.endpoints IN
        /\ \A im \in DeclaredOps :
              Cardinality({ j \in 1..Len(es) :
                              /\ es[j].path = DocPaths[im[1]][1]
                              /\ es[j].method = MethodOrder[im[2]] }) = 1
        /\ \A j \in 1..Len(es) :
              \E im \in DeclaredOps :
                  es[j].path = DocPaths[im[1]][1] /\ es[j].method = MethodOrder[im[2]]
        /\ \A j, k \in 1..Len(es) :
              j < k =>
                 \/ PlaceOf(es[j])[1] < PlaceOf(es[k])[1]
                 \/ /\ PlaceOf(es[j])[1] = PlaceOf(es[k])[1]
                    /\ PlaceOf(es[j])[2] < PlaceOf(es[k])[2]

\* a path item whose keys are not in the fixed order, with a key that is no method
C6_Witness ==
    /\ pc = "done"
    /\ Len(DocPaths) = 2
    /\ Keys(DocPaths[1][2]) = <<"parameters", "get">>
    /\ Keys(DocPaths[2][2]) = <<"patch", "put", "get">>
    /\ Len(result.endpoints) = 4
    /\ result.endpoints[1].path = DocPaths[1][1]
    /\ result.endpoints[2].method = "GET"
    /\ result.endpoints[3].method = "PUT"
    /\ result.endpoints[4].method = "PATCH"

\* C8: no endpoint is dropped or renamed because of a name clash: the model has
\* as many endpoints as the document declares operations, each with the
\* operationId its operation declares, whether or not tool names repeat.
C8_NoDeduplication ==
    pc = "done" =>
        LET es == result.endpoints IN
        /\ Len(es) = Cardinality(DeclaredOps)
        /\ \A j \in 1..Len(es) :
              es[j].operation_id =
                 Get(Get(DocPaths[PlaceOf(es[j])[1]][2], KeyOrder[PlaceOf(es[j])[2]], Null),
                     "operationId", Null)

\* a returned model in which PUT and PATCH of one path, and GET of /a/items and
\* of /b/items, have equal tool names
C8_Witness ==
    /\ pc = "done"
    /\ \E j, k \in 1..Len(result.endpoints) :
          /\ result.endpoints[j].method = "PUT"
          /\ result.endpoints[k].method = "PATCH"
          /\ result.endpoints[j].path = result.endpoints[k].path
          /\ ToolName(result.endpoints[j]) = ToolName(result.endpoints[k])
    /\ \E j, k \in 1..Len(result.endpoints) :
          /\ result.endpoints[j].path = "/a/items" /\ result.endpoints[j].method = "GET"
          /\ result.endpoints[k].path = "/b/items" /\ result.endpoints[k].method = "GET"
          /\ ToolName(result.endpoints[j]) = "list_items"
          /\ ToolName(result.endpoints[k]) = "list_items"

-----------------------------------------------------------------------------
(* Documents of one operation that vary in path, method and operationId:
   tool names *)

NamePaths ==
    { "/pets", "/pets/{petId}", "/", "/{id}", "/pets/", "/Users/{id}/Posts",
      "/users/{userId}/pets/{petId}", "/v1//items", "/store/order-items" }

\* the values of an operation's `operationId` key
OperationIdOptions ==
    { Absent, Null, Str(""), Str("listPets"), Str("Get Pet By Id"), Str("create_pet") }

NameDocs ==
    { DocOf(Map(<< <<path, Map(<< <<method, MkMap(<< <<"operationId", id>> >>)>> >>)>> >>)) :
        path \in NamePaths, method \in ItemKeys \ {"parameters"}, id \in OperationIdOptions }

InitNames == InitFile(NameDocs)

SpecNames == InitNames /\ [][NextFile]_vars

\* the operation of the document an endpoint of the model was built from
OperationOf(e) == Get(DocPaths[PlaceOf(e)[1]][2], KeyOrder[PlaceOf(e)[2]], Null)

\* the last segment of the path that is non-empty and does not start with "{",
\* "resource" if there is none
LastResource(path) ==
    LET segs == Split(path, "/")
        named == { i \in 1..Len(segs) : segs[i] # "" /\ CharAt(segs[i], 1) # "{" }
    IN IF named = {} THEN "resource"
       ELSE segs[CHOOSE i \in named : \A j \in named : j <= i]

\* the prefix of a derived tool name
DerivedPrefix(path, method) ==
    IF method = "GET" THEN (IF \E i \in 1..Len(path) : CharAt(path, i) = "{"
                            THEN "get" ELSE "list")
    ELSE IF method = "POST" THEN "create"
    ELSE IF method \in {"PUT", "PATCH"} THEN "update"
    ELSE IF method = "DELETE" THEN "delete"
    ELSE IF method = "HEAD" THEN "head"
    ELSE "options"

\* the tool name derived from the method and the path
DerivedName(e) == Lower(DerivedPrefix(e.path, e.method) \o "_" \o LastResource(e.path))

\* the tool name taken from an operationId
IdName(id) == ReplaceChar(Lower(id), " ", "_")

\* the names the specification lists for the pet store
PetStoreNames(e) ==
    /\ (e.method = "GET" /\ e.path = "/pets") => ToolName(e) = "list_pets"
    /\ (e.method = "GET" /\ e.path = "/pets/{petId}") => ToolName(e) = "get_pets"
    /\ (e.method = "POST" /\ e.path = "/pets") => ToolName(e) = "create_pets"
    /\ (e.method = "PUT" /\ e.path = "/pets/{petId}") => ToolName(e) = "update_pets"
    /\ (e.method = "DELETE" /\ e.path = "/pets/{petId}") => ToolName(e) = "delete_pets"

-----------------------------------------------------------------------------
(* Documents of one operation that vary in its parameters *)

\* the number of parameters of the operation
MaxParams == 2

\* the values of a parameter's `in` key
InOptions ==
    { Absent, Str("query"), Str("header"), Str("path"), Str("cookie"), Str("body"),
      Str("formData"), Str("Path") }

\* the values of a parameter's `required` key
RequiredOptions == { Absent, Bool(TRUE), Bool(FALSE) }

\* the values of a parameter's `schema` key: none, a schema without `type`,
\* schemas of the six mapped types and of other types
SchemaOptions ==
    { Absent, Map(<< <<"default", Num(10)>> >>) } \cup
    { Map(<< <<"type", Str(ty)>> >>) :
        ty \in { "string", "integer", "number", "boolean", "array", "object",
                 "null", "file", "String" } }

\* the declarations of a parameter, but for its name
ParamPool ==
    { MkMap(<< <<"in", w>>, <<"required", r>>, <<"schema", Map(<< <<"type", Str("integer")>> >>)>> >>) :
        w \in InOptions, r \in RequiredOptions } \cup
    { MkMap(<< <<"in", Str("query")>>, <<"schema", sch>> >>) : sch \in SchemaOptions }

\* the i-th parameter of an operation is named p<i>
NamedParam(i, decl) == Map(<< <<"name", Str("p" \o ToString(i))>> >> \o decl.kv)

ParamDocs ==
    { DocOf(Map(<< <<"/pets/{petId}",
                     Map(<< <<"get",
                              Map(<< <<"parameters",
                                       List([i \in 1..Len(ps) |-> NamedParam(i, ps[i])])>> >>)>> >>)>> >>)) :
        ps \in UNION { [1..k -> ParamPool] : k \in 0..MaxParams } }

InitParams == InitFile(ParamDocs)

SpecParams == InitParams /\ [][NextFile]_vars

\* the parameters an operation declares
DeclaredParams(op) == Get(op, "parameters", List(<<>>)).xs

\* the type a parameter declares in its schema, Absent when it declares none
DeclaredType(param) ==
    IF HasKey(param, "schema") THEN Get(Get(param, "schema", Null), "type", Absent)
    ELSE Absent

\* the semantic type of the six mapped types
MappedType(ty) ==
    IF ty = Str("string") THEN "str"
    ELSE IF ty = Str("integer") THEN "int"
    ELSE IF ty = Str("number") THEN "float"
    ELSE IF ty = Str("boolean") THEN "bool"
    ELSE IF ty = Str("array") THEN "list"
    ELSE IF ty = Str("object") THEN "dict"
    ELSE "Any"

\* C9 as claimed: the semantic type of every parameter is str, int, float, bool,
\* list or dict for a declared type string, integer, number, boolean, array or
\* object, and Any for anything else, a parameter without a declared type or
\* without a schema included.
C9_TypeAsClaimed ==
    pc = "done" =>
        \A j \in 1..Len(result.endpoints) :
            LET e == result.endpoints[j]
                declared == DeclaredParams(OperationOf(e))
            IN /\ Len(e.parameters) = Len(declared)
               /\ \A i \in 1..Len(declared) :
                     e.parameters[i].type = MappedType(DeclaredType(declared[i]))

\* C9, amended: the semantic type of every parameter is str, int, float, bool,
\* list or dict for a declared type string, integer, number, boolean, array or
\* object, Any for every other declared type, and str for a parameter whose
\* schema declares no type or that has no schema at all.
C9_TypeMapping ==
    pc = "done" =>
        \A j \in 1..Len(result.endpoints) :
            LET e == result.endpoints[j]
                declared == DeclaredParams(OperationOf(e))
            IN /\ Len(e.parameters) = Len(declared)
               /\ \A i \in 1..Len(declared) :
                     e.parameters[i].type =
                        IF DeclaredType(declared[i]) = Absent THEN "str"
                        ELSE MappedType(DeclaredType(declared[i]))

\* a parameter without a schema, one with a type that is not mapped
C9_Witness ==
    /\ pc = "done"
    /\ Len(result.endpoints) = 1
    /\ LET declared == DeclaredParams(OperationOf(result.endpoints[1]))
           built == result.endpoints[1].parameters
       IN /\ Len(declared) = 2
          /\ ~HasKey(declared[1], "schema")
          /\ built[1].type = "str"
          /\ DeclaredType(declared[2]) = Str("file")
          /\ built[2].type = "Any"

C10_WitnessBody ==
    /\ pc = "done"
    /\ Len(result.endpoints) = 1
    /\ \E i \in 1..Len(result.endpoints[1].parameters) :
          /\ Get(DeclaredParams(OperationOf(result.endpoints[1]))[i], "in", Absent) = Str("body")
          /\ result.endpoints[1].parameters[i].location = "query"

-----------------------------------------------------------------------------
(* Documents of one operation that vary in its request body *)

\* the schema of the pet-store's request body
NewPetSchema ==
    Map(<< <<"type", Str("object")>>,
           <<"required", List(<<Str("name")>>)>>,
           <<"properties", Map(<< <<"name", Map(<< <<"type", Str("string")>> >>)>>,
                                  <<"species", Map(<< <<"type", Str("string")>> >>)>> >>)>> >>)

\* a schema with other properties, in another order
FormSchema ==
    Map(<< <<"type", Str("object")>>,
           <<"properties", Map(<< <<"species", Map(<< <<"type", Str("string")>> >>)>>,
                                  <<"age", Map(<< <<"type", Str("integer")>> >>)>>,
                                  <<"name", Map(<< <<"type", Str("string")>> >>)>> >>)>> >>)

\* the values of a content entry: none, an empty media type object, one without
\* a schema, one whose schema has no properties, ones with properties
MediaOptions ==
    { Absent, Map(<<>>),
      Map(<< <<"example", Map(<< <<"name", Str("Rex")>> >>)>> >>),
      Map(<< <<"schema", Map(<< <<"type", Str("object")>> >>)>> >>),
      Map(<< <<"schema", NewPetSchema>> >>),
      Map(<< <<"schema", FormSchema>> >>) }

JsonMedia == "application/json"
FormMedia == "application/x-www-form-urlencoded"

\* the values of an operation's `requestBody` key
RequestBodyOptions ==
    { Absent, Map(<< <<"required", Bool(TRUE)>> >>) } \cup
    { Map(<< <<"content", MkMap(<< <<JsonMedia, j>>, <<FormMedia, f>>, <<"text/plain", t>> >>)>> >>) :
        j \in MediaOptions, f \in MediaOptions,
        t \in { Absent, Map(<< <<"schema", FormSchema>> >>) } } \cup
    { Map(<< <<"content", MkMap(<< <<FormMedia, f>>, <<JsonMedia, j>> >>)>> >>) :
        j \in MediaOptions \ {Absent}, f \in { Map(<< <<"schema", FormSchema>> >>) } }

BodyDocs ==
    { DocOf(Map(<< <<"/pets", Map(<< <<"post", MkMap(<< <<"requestBody", b>> >>)>> >>)>> >>)) :
        b \in RequestBodyOptions }

InitBodies == InitFile(BodyDocs)

SpecBodies == InitBodies /\ [][NextFile]_vars

\* the content entries of an operation's request body
DeclaredContent(op) == Get(Get(op, "requestBody", Map(<<>>)), "content", Map(<<>>))

\* the property names a media type object declares in its schema, in order
DeclaredNames(media) ==
    Keys(Get(Get(media, "schema", Map(<<>>)), "properties", Map(<<>>)))

\* the request body of an endpoint is the one built from the media type object
\* `media`, or is absent when `media` is Absent
BodyIsFrom(e, media) ==
    IF media = Absent THEN e.request_body = Null
    ELSE /\ e.request_body # Null
         /\ e.request_body.name = "RequestBody"
         /\ Keys(e.request_body.properties) = DeclaredNames(media)

\* C11 as claimed: the request body of every endpoint is built under the name
\* RequestBody from the application/json entry whenever the request body declares
\* one, otherwise from the application/x-www-form-urlencoded entry when declared,
\* and is absent otherwise; its properties have the names the chosen schema
\* declares, in order.
C11_AsClaimed ==
    pc = "done" =>
        \A j \in 1..Len(result.endpoints) :
            LET e == result.endpoints[j]
                declared == DeclaredContent(OperationOf(e))
            IN BodyIsFrom(e, IF HasKey(declared, JsonMedia) THEN Get(declared, JsonMedia, Absent)
                             ELSE Get(declared, FormMedia, Absent))

\* C11, amended: the request body of every endpoint is built under the name
\* RequestBody from the application/json entry whenever the request body declares
\* one that is not empty, otherwise from the application/x-www-form-urlencoded
\* entry when that is declared and not empty, and is absent otherwise (no
\* requestBody, no content, neither media type, or only empty entries for them);
\* its properties have the names the chosen schema declares, in order.
C11_RequestBodyResolution ==
    pc = "done" =>
        \A j \in 1..Len(result.endpoints) :
            LET e == result.endpoints[j]
                declared == DeclaredContent(OperationOf(e))
                json == Get(declared, JsonMedia, Absent)
                form == Get(declared, FormMedia, Absent)
            IN BodyIsFrom(e, IF json \notin {Absent, Map(<<>>)} THEN json
                             ELSE IF form \notin {Absent, Map(<<>>)} THEN form
                             ELSE Absent)

\* a request body whose application/json entry is empty is built from the form
\* entry, declared before it
C11_Witness ==
    /\ pc = "done"
    /\ Len(result.endpoints) = 1
    /\ LET declared == DeclaredContent(OperationOf(result.endpoints[1])) IN
       /\ Keys(declared) = <<FormMedia, JsonMedia>>
       /\ Get(declared, JsonMedia, Absent) = Map(<<>>)
       /\ result.endpoints[1].request_body # Null
       /\ Keys(result.endpoints[1].request_body.properties) = <<"species", "age", "name">>

\* the pet-store's request body: application/json alone
C11_WitnessJson ==
    /\ pc = "done"
    /\ Len(result.endpoints) = 1
    /\ Keys(DeclaredContent(OperationOf(result.endpoints[1]))) = <<JsonMedia>>
    /\ result.endpoints[1].request_body # Null
    /\ result.endpoints[1].request_body.name = "RequestBody"
    /\ Keys(result.endpoints[1].request_body.properties) = <<"name", "species">>

-----------------------------------------------------------------------------
(* Documents of one operation that vary in its responses *)

\* a response with the given properties in its application/json schema
JsonResponse(names) ==
    Map(<< <<"description", Str("OK")>>,
           <<"content",
             Map(<< <<JsonMedia,
                      Map(<< <<"schema",
                               Map(<< <<"type", Str("object")>>,
                                      <<"properties",
                                        Map([i \in 1..Len(names) |->
                                               <<names[i], Map(<< <<"type", Str("string")>> >>)>>])>> >>)>> >>)>> >>)>> >>)

\* responses without JSON content: no content, XML only, an empty JSON entry
PlainResponses ==
    { Map(<< <<"description", Str("No content")>> >>),
      Map(<< <<"description", Str("OK")>>,
             <<"content", Map(<< <<"application/xml",
                                   Map(<< <<"schema", Map(<< <<"type", Str("object")>> >>)>> >>)>> >>)>> >>),
      Map(<< <<"description", Str("OK")>>, <<"content", Map(<< <<JsonMedia, Map(<<>>)>> >>)>> >>) }

\* the values of an operation's `responses` key, the status codes in either order
ResponsesOptions ==
    { Absent } \cup
    UNION { { MkMap(<< <<"200", ok>>, <<"201", created>>, <<"202", other>>, <<"default", other>> >>),
              MkMap(<< <<"default", other>>, <<"204", other>>, <<"201", created>>, <<"200", ok>> >>) } :
            ok \in { Absent, JsonResponse(<<"id", "name">>) } \cup PlainResponses,
            created \in { Absent, JsonResponse(<<"id">>) } \cup PlainResponses,
            other \in { Absent, JsonResponse(<<"status">>) } }

ResponseDocs ==
    { DocOf(Map(<< <<"/pets", Map(<< <<"post", MkMap(<< <<"responses", r>> >>)>> >>)>> >>)) :
        r \in ResponsesOptions }

InitResponses == InitFile(ResponseDocs)

SpecResponses == InitResponses /\ [][NextFile]_vars

\* the JSON media type object of a response, Absent when it has none or an empty one
JsonOf(response) ==
    LET media == Get(Get(response, "content", Map(<<>>)), JsonMedia, Absent) IN
    IF media = Map(<<>>) THEN Absent ELSE media

\* the response schema of an endpoint is the one built from `response`, or is
\* absent when `response` is Absent or carries no JSON content
ResponseIsFrom(e, response) ==
    IF response = Absent \/ JsonOf(response) = Absent THEN e.response_schema = Null
    ELSE /\ e.response_schema # Null
         /\ e.response_schema.name = "Response"
         /\ Keys(e.response_schema.properties) = DeclaredNames(JsonOf(response))

\* C12: the response schema of every endpoint is built under the name Response
\* from the "200" response when the operation declares one, otherwise from the
\* "201" response when declared, and is absent when neither is declared; no other
\* status code bears on it, and a declared "200" without JSON content leaves it
\* absent whatever "201" holds.
C12_ResponseResolution ==
    pc = "done" =>
        \A j \in 1..Len(result.endpoints) :
            LET e == result.endpoints[j]
                declared == Get(OperationOf(e), "responses", Map(<<>>))
            IN ResponseIsFrom(e, IF HasKey(declared, "200") THEN Get(declared, "200", Absent)
                                 ELSE Get(declared, "201", Absent))

\* a "200" without JSON content, a "201" and other codes with it: no response schema
C12_Witness ==
    /\ pc = "done"
    /\ Len(result.endpoints) = 1
    /\ LET declared == Get(OperationOf(result.endpoints[1]), "responses", Map(<<>>)) IN
       /\ HasKey(declared, "200") /\ JsonOf(Get(declared, "200", Absent)) = Absent
       /\ HasKey(declared, "201") /\ JsonOf(Get(declared, "201", Absent)) # Absent
       /\ HasKey(declared, "202") /\ JsonOf(Get(declared, "202", Absent)) # Absent
       /\ result.endpoints[1].response_schema = Null

\* no "200", a "201" with JSON content declared after other codes: built from "201"
C12_WitnessCreated ==
    /\ pc = "done"
    /\ Len(result.endpoints) = 1
    /\ Keys(Get(OperationOf(result.endpoints[1]), "responses", Map(<<>>)))
          = <<"default", "204", "201">>
    /\ result.endpoints[1].response_schema # Null
    /\ Keys(result.endpoints[1].response_schema.properties) = <<"id">>

-----------------------------------------------------------------------------
(* Documents that vary in the schemas of their components *)

\* schemas of scalars, with the constraint fields
LeafSchemas ==
    { Map(<< <<"type", Str("string")>>, <<"description", Str("The name")>>,
             <<"pattern", Str("^[a-z]+$")>>, <<"minLength", Num(1)>>, <<"maxLength", Num(64)>>,
             <<"format", Str("email")>>, <<"default", Str("rex")>>, <<"example", Str("rex")>>,
             <<"enum", List(<<Str("rex"), Str("tom")>>)>> >>),
      Map(<< <<"type", Str("integer")>>, <<"minimum", Num(0)>>, <<"maximum", Num(120)>>,
             <<"default", Num(0)>>, <<"example", Num(7)>> >>),
      Map(<< <<"type", Str("boolean")>>, <<"required", Bool(TRUE)>>, <<"default", Bool(FALSE)>> >>),
      Map(<< <<"description", Str("No type")>> >>) }

\* the object schema with the given properties and `required` value
ObjectSchema(props, req) ==
    MkMap(<< <<"type", Str("object")>>, <<"required", req>>, <<"properties", Map(props)>> >>)

\* object schemas of scalars, declaring the required names or not
FlatObjectSchemas ==
    { ObjectSchema(props, req) :
        props \in { << <<"name", Map(<< <<"type", Str("string")>>, <<"minLength", Num(1)>> >>)>> >>,
                    << <<"id", Map(<< <<"type", Str("integer")>>, <<"minimum", Num(1)>> >>)>>,
                       <<"name", Map(<< <<"type", Str("string")>> >>)>> >> },
        req \in { Absent, List(<<Str("name")>>) } }

\* array schemas: with items, without, and a string schema that has `items`
ArraySchemas ==
    { Map(<< <<"type", Str("array")>>, <<"items", item>> >>) :
        item \in LeafSchemas \cup FlatObjectSchemas } \cup
    { Map(<< <<"type", Str("array")>> >>),
      Map(<< <<"type", Str("string")>>, <<"items", Map(<< <<"type", Str("string")>> >>)>> >>) }

\* object schemas three levels deep, and one with `properties` but no type
DeepObjectSchemas ==
    { ObjectSchema(<< <<"tags", Map(<< <<"type", Str("array")>>, <<"items", item>> >>)>>,
                      <<"owner", item>> >>, Absent) :
        item \in FlatObjectSchemas } \cup
    { Map(<< <<"properties", Map(<< <<"name", Map(<< <<"type", Str("string")>> >>)>> >>)>> >>) }

PropertyPool == LeafSchemas \cup FlatObjectSchemas \cup ArraySchemas \cup DeepObjectSchemas

\* the schema Pet of the components, with one or two properties
PetSchemas ==
    { Map(<< <<"type", Str("object")>>, <<"required", List(<<Str("a")>>)>>,
             <<"properties", Map(<< <<"a", first>> >>)>> >>) : first \in PropertyPool } \cup
    { Map(<< <<"type", Str("object")>>,
             <<"properties", Map(<< <<"a", first>>, <<"b", second>> >>)>> >>) :
        first \in PropertyPool, second \in LeafSchemas }

SchemaDocs ==
    { Map(<< <<"openapi", Str("3.0.3")>>, <<"info", PetInfo>>, <<"paths", Map(<<>>)>>,
             <<"components", Map(<< <<"schemas", Map(<< <<"Pet", pet>> >>)>> >>)>> >>) :
        pet \in PetSchemas }

InitSchemas == InitFile(SchemaDocs)

SpecSchemas == InitSchemas /\ [][NextFile]_vars

\* the constraint fields: the key of the source schema, the field of PropertySchema
CopiedFields ==
    << <<"pattern", "pattern">>, <<"minLength", "min_length">>, <<"maxLength", "max_length">>,
       <<"minimum", "minimum">>, <<"maximum", "maximum">>, <<"enum", "enum">>,
       <<"format", "format">>, <<"default", "default">>, <<"example", "example">>,
       <<"description", "description">>, <<"required", "required">> >>

RECURSIVE Mirrors(_, _)
\* the PropertySchema p mirrors the source schema: each constraint field the
\* source has is in p with the same value, the items of an array-typed source
\* and the properties of an object-typed one are mirrored in turn
Mirrors(p, schema) ==
    /\ \A i \in 1..Len(CopiedFields) :
          HasKey(schema, CopiedFields[i][1])
             => p[CopiedFields[i][2]] = Get(schema, CopiedFields[i][1], Null)
    /\ (Get(schema, "type", Absent) = Str("array") /\ HasKey(schema, "items"))
          => p.items # Null /\ Mirrors(p.items, Get(schema, "items", Null))
    /\ (Get(schema, "type", Absent) = Str("object") /\ HasKey(schema, "properties"))
          => LET declared == Get(schema, "properties", Null) IN
             /\ p.properties # Null
             /\ Keys(p.properties) = Keys(declared)
             /\ \A k \in 1..Len(declared.kv) :
                   Mirrors(p.properties.kv[k][2], declared.kv[k][2])

\* the schemas the stored document declares in its components
DocSchemas == Get(Get(spec, "components", Map(<<>>)), "schemas", Map(<<>>)).kv

\* C13: once the schemas have been extracted, every property of every schema of
\* the document has its PropertySchema, which mirrors the source schema at every
\* depth: the constraint fields present in the source with the same value (the
\* `required` value of an object schema as declared), the items of an array built
\* by the same rule, one nested PropertySchema per property of an object, same
\* keys in the same order.
C13_SchemaMirror ==
    "schemas" \in Range(phases) =>
        /\ pc # "failed"
        /\ Len(schemas.kv) = Len(DocSchemas)
        /\ \A i \in 1..Len(DocSchemas) :
              LET declared == Get(DocSchemas[i][2], "properties", Map(<<>>))
                  built == schemas.kv[i][2].properties
              IN /\ Keys(built) = Keys(declared)
                 /\ \A k \in 1..Len(declared.kv) : Mirrors(built.kv[k][2], declared.kv[k][2])

-----------------------------------------------------------------------------
(* Documents that vary in their security schemes *)

ApiKeySchemes ==
    { MkMap(<< <<"type", Str("apiKey")>>, <<"name", n>>, <<"in", w>> >>) :
        n \in { Absent, Str("X-API-Key") },
        w \in { Absent, Str("header"), Str("query"), Str("cookie"), Str("Header") } }

HttpSchemes ==
    { MkMap(<< <<"type", Str("http")>>, <<"scheme", sch>>, <<"description", Str("HTTP auth")>> >>) :
        sch \in { Absent, Str("bearer"), Str("Bearer"), Str("basic"), Str("digest") } }

\* the OAuth2 flow of the given name
FlowOf(name) ==
    Map(<< <<"authorizationUrl", Str("https://auth.example.com/" \o name)>>,
           <<"tokenUrl", Str("https://auth.example.com/token/" \o name)>>,
           <<"scopes", Map(<< <<"read:" \o name, Str("Read access")>> >>)>> >>)

\* the `flows` with the given names declared, in the given order
FlowsOf(names) == Map([i \in 1..Len(names) |-> <<names[i], FlowOf(names[i])>>])

OAuth2Schemes ==
    { Map(<< <<"type", Str("oauth2")>> >>) } \cup
    { Map(<< <<"type", Str("oauth2")>>, <<"flows", FlowsOf(names)>> >>) :
        names \in { <<>>, <<"clientCredentials">>, <<"password">>, <<"implicit">>,
                    <<"authorizationCode">>, <<"password", "implicit">>,
                    <<"clientCredentials", "password">>,
                    <<"password", "implicit", "authorizationCode">>,
                    <<"implicit", "authorizationCode">> } }

OtherSchemes ==
    { Map(<< <<"type", Str("openIdConnect")>>,
             <<"openIdConnectUrl", Str("https://auth.example.com/.well-known")>> >>),
      Map(<< <<"type", Str("mutualTLS")>> >>),
      Map(<< <<"description", Str("No type")>> >>) }

FirstSchemes == ApiKeySchemes \cup HttpSchemes \cup OAuth2Schemes \cup OtherSchemes

\* the schemes after the first
LaterSchemes ==
    { Absent,
      Map(<< <<"type", Str("http")>>, <<"scheme", Str("bearer")>> >>),
      Map(<< <<"type", Str("apiKey")>>, <<"name", Str("key")>>, <<"in", Str("query")>> >>) }

\* the values of the document's `components` key
ComponentsOptions ==
    { Absent, Map(<<>>), Map(<< <<"securitySchemes", Map(<<>>)>> >>) } \cup
    { Map(<< <<"securitySchemes", MkMap(<< <<"first", a>>, <<"second", b>> >>)>> >>) :
        a \in FirstSchemes, b \in LaterSchemes }

AuthDocs ==
    { MkMap(<< <<"openapi", Str("3.0.3")>>, <<"info", PetInfo>>, <<"paths", Map(<<>>)>>,
               <<"components", c>> >>) : c \in ComponentsOptions }

InitAuth == InitFile(AuthDocs)

SpecAuth == InitAuth /\ [][NextFile]_vars

\* the security schemes the stored document declares
DocSchemes == Get(Get(spec, "components", Map(<<>>)), "securitySchemes", Map(<<>>)).kv

\* the type and the HTTP scheme of a security scheme, lower-cased
SchemeKind(scheme) ==
    << Lower(Get(scheme, "type", Str("")).s), Lower(Get(scheme, "scheme", Str("")).s) >>

\* the one flow of an OAuth2 scheme that counts, Absent when there is none
ChosenFlow(scheme) ==
    LET flows == Get(scheme, "flows", Map(<<>>)) IN
    IF HasKey(flows, "authorizationCode") THEN Get(flows, "authorizationCode", Absent)
    ELSE IF HasKey(flows, "implicit") THEN Get(flows, "implicit", Absent)
    ELSE Get(flows, "password", Absent)

\* the auth of the model is the one the claim gives for the scheme
AuthIsFor(a, scheme) ==
    LET kind == SchemeKind(scheme) IN
    IF kind[1] = "apikey"
    THEN /\ a # Null
         /\ a.type = "api_key"
         /\ HasKey(scheme, "name") => a.name = Get(scheme, "name", Null)
         /\ Str(a.location) = Get(scheme, "in", Str("header"))
    ELSE IF kind = <<"http", "bearer">>
    THEN a # Null /\ a.type = "bearer" /\ a.scheme = Str("Bearer")
    ELSE IF kind = <<"http", "basic">>
    THEN a # Null /\ a.type = "basic" /\ a.scheme = Str("Basic")
    ELSE IF kind[1] = "oauth2" /\ ChosenFlow(scheme) # Absent
    THEN /\ a # Null
         /\ a.type = "oauth2"
         /\ a.authorization_url = Get(ChosenFlow(scheme), "authorizationUrl", Null)
         /\ a.token_url = Get(ChosenFlow(scheme), "tokenUrl", Null)
         /\ a.scopes = Get(ChosenFlow(scheme), "scopes", Map(<<>>))
    ELSE a = Null

\* C14: once the auth has been extracted, it is the one of the first security
\* scheme alone: none without security schemes; API-key auth with the scheme's
\* name and location (header when `in` is absent) for apiKey; bearer auth with
\* scheme "Bearer" for http/bearer; basic auth with scheme "Basic" for http/basic;
\* OAuth2 auth with the URLs and scopes of one flow (authorizationCode if
\* declared, else implicit, else password) for oauth2; none, and no error, for
\* anything else; the later schemes change nothing.
C14_AuthExtraction ==
    "auth" \in Range(phases) =>
        /\ pc # "failed"
        /\ IF DocSchemes = <<>> THEN auth = Null ELSE AuthIsFor(auth, DocSchemes[1][2])

-----------------------------------------------------------------------------
(* Documents that are incomplete: fields missing or not recognized *)

\* parameters that lack `name`, `in` or `schema`, or have an unknown `in`
LooseParams ==
    { Map(<<>>),
      Map(<< <<"name", Str("limit")>> >>),
      Map(<< <<"in", Str("path")>>, <<"schema", Map(<<>>)>> >>),
      Map(<< <<"name", Str("file")>>, <<"in", Str("formData")>> >>),
      Map(<< <<"name", Str("q")>>, <<"in", Str("query")>>,
             <<"schema", Map(<< <<"type", Str("integer")>> >>)>> >>) }

\* first security schemes that lack fields, or have an unknown `in`
LooseSchemes ==
    { Absent, Map(<<>>),
      Map(<< <<"type", Str("apiKey")>> >>),
      Map(<< <<"type", Str("apiKey")>>, <<"name", Str("X-API-Key")>>, <<"in", Str("header")>> >>),
      Map(<< <<"type", Str("apiKey")>>, <<"name", Str("X-API-Key")>>, <<"in", Str("Header")>> >>) }

LooseDocs ==
    { Map(<< <<"openapi", Str("3.0.3")>>, <<"info", Map(<<>>)>>,
             <<"paths",
               Map(<< <<"/pets",
                        Map(<< <<"get",
                                 MkMap(<< <<"parameters", List(ps)>>,
                                          <<"responses", r>> >>)>> >>)>> >>)>>,
             <<"components",
               Map(<< <<"securitySchemes", MkMap(<< <<"first", sch>> >>)>> >>)>> >>) :
        ps \in UNION { [1..k -> LooseParams] : k \in 0..MaxParams },
        r \in { Absent, Map(<< <<"200", JsonResponse(<<"id">>)>> >>) },
        sch \in LooseSchemes }

InitLoose == InitFile(LooseDocs)

SpecLoose == InitLoose /\ [][NextFile]_vars

\* C15: once validation has passed, parse() does not fail: a document whose
\* operations, parameters, schemas and security schemes are mappings is parsed
\* to a model, with the default for every field that is missing or not
\* recognized: the name "" for a parameter without name, the location query for
\* one without `in` or with an unknown one, the type str for one without schema,
\* no response schema for an operation without responses, the location header
\* for an apiKey scheme without `in` or with an unknown one.
C15_PermissiveExtraction ==
    /\ "servers" \in Range(phases) => pc # "failed"
    /\ pc = "done" =>
          /\ \A j \in 1..Len(result.endpoints) :
                LET e == result.endpoints[j]
                    op == OperationOf(e)
                    declared == DeclaredParams(op)
                IN /\ Len(e.parameters) = Len(declared)
                   /\ \A i \in 1..Len(declared) :
                         /\ ~HasKey(declared[i], "name") => e.parameters[i].name = ""
                         /\ Get(declared[i], "in", Absent) \notin
                               {Str("query"), Str("header"), Str("path"), Str("cookie")}
                               => e.parameters[i].location = "query"
                         /\ ~HasKey(declared[i], "schema") => e.parameters[i].type = "str"
                   /\ ~HasKey(op, "responses") => e.response_schema = Null
          /\ (DocSchemes # <<>> /\ SchemeKind(DocSchemes[1][2])[1] = "apikey")
                => result.auth # Null /\ result.auth.type = "api_key"
          /\ ( /\ DocSchemes # <<>>
               /\ SchemeKind(DocSchemes[1][2])[1] = "apikey"
               /\ Get(DocSchemes[1][2], "in", Absent) \notin
                     {Str("query"), Str("header"), Str("cookie")} )
                => result.auth # Null /\ result.auth.location = "header"

-----------------------------------------------------------------------------
(* Repeated parses of one document *)

\* a scheme whose location is no ParameterLocation
BadKeyComponents ==
    Map(<< <<"securitySchemes",
             Map(<< <<"key", Map(<< <<"type", Str("apiKey")>>, <<"name", Str("X-API-Key")>>,
                                    <<"in", Str("Header")>> >>)>> >>)>> >>)

RunDocs ==
    { MkMap(<< <<"openapi", Str("3.0.3")>>, <<"info", PetInfo>>, <<"servers", s>>,
               <<"paths", p>>, <<"components", c>> >>) :
        s \in { Absent, PetServers },
        p \in { Map(<<>>), PetPaths },
        c \in { Absent, BearerComponents, BadKeyComponents,
                Map(<< <<"schemas", Map(<< <<"NewPet", NewPetSchema>> >>)>> >>) } }

RunSources == { "https://api.example.com/openapi.json", "api.json", "api.yaml", "api.txt" }

\* a parser on a URL or a file that holds one of the documents, or on no file
InitRuns ==
    /\ source \in RunSources
    /\ fs \in {"missing", "file"}
    /\ net \in IF IsUrl(source)
               THEN { [connect |-> TRUE, delay |-> 1, status |-> 200],
                      [connect |-> TRUE, delay |-> 1, status |-> 404] }
               ELSE { [connect |-> FALSE, delay |-> 0, status |-> 0] }
    /\ content \in { Text(f, d) : f \in {"json", "yaml"}, d \in RunDocs }
    /\ Fresh

NextRuns == Next \/ ParseAgain \/ ParseAnew

SpecRuns == InitRuns /\ [][NextRuns]_vars

\* the model of a document loaded from a source, as a function of the two
NormalizedOf(doc, src) ==
    [ name |-> Get(Get(doc, "info", Map(<<>>)), "title", Str("Unknown API")),
      version |-> Get(Get(doc, "info", Map(<<>>)), "version", Str("1.0.0")),
      description |-> Get(Get(doc, "info", Map(<<>>)), "description", Null),
      servers |-> ExtractServers(doc),
      endpoints |-> ExtractEndpoints(doc).val,
      auth |-> ExtractAuth(doc).val,
      schemas |-> ExtractSchemas(doc).val,
      source_format |-> "openapi",
      source_url |-> IF StartsWith(src, "http://") \/ StartsWith(src, "https://")
                     THEN Str(src) ELSE Null,
      base_url |-> IF ExtractServers(doc) # <<>> THEN ExtractServers(doc)[1].url ELSE Null ]

\* C16: every parse() call on a document, on the same parser or on another one,
\* ends as the calls before it did: the same model (endpoints in the same order,
\* parameters, auth, schemas) or the same exception; and a returned model is
\* the function of the loaded document and the source string.
C16_Determinism ==
    /\ pc \in {"done", "failed"} =>
          \A i \in 1..Len(runs) : runs[i] = [result |-> result, error |-> error]
    /\ pc = "done" => result = NormalizedOf(spec, source)

\* a third parse of the pet store has returned, as the first two did
C16_Witness ==
    /\ pc = "done"
    /\ Len(runs) = 2
    /\ runs[1].result = result
    /\ Len(result.endpoints) = 3
    /\ [j \in 1..3 |-> ToolName(result.endpoints[j])] = <<"listpets", "createpet", "getpet">>
    /\ result.auth # Null

-----------------------------------------------------------------------------
(* One document in its serializations: JSON, YAML with quoted keys, YAML with
   plain keys *)

\* the sources a text of the given format is loaded from: a URL, a file named
\* for the format, a file with another suffix
FormatSources(fmt) ==
    { "https://api.example.com/openapi.json", "api.txt" } \cup
    (IF fmt = "json" THEN { "api.json" } ELSE { "api.yaml", "specs/api.yml" })

InitFormats ==
    /\ content \in { Text(f, d) : f \in {"json", "yaml", "yaml_plain"}, d \in ResponseDocs }
    /\ source \in FormatSources(content.fmt)
    /\ fs \in IF IsUrl(source) THEN {"missing"} ELSE {"missing", "file"}
    /\ net = [connect |-> TRUE, delay |-> 1, status |-> 200]
    /\ Fresh

SpecFormats == InitFormats /\ [][Next]_vars

\* C17: whatever the serialization of a document (JSON or YAML) and the source
\* it is loaded from, the loaded tree is the document's, the one its JSON
\* serialization gives, and the returned model has the endpoints (with their
\* response schemas), auth and schemas of that document.
C17_FormatEquivalence ==
    /\ pc \notin {"start", "awaiting", "failed"} => spec = content.doc
    /\ pc = "done" =>
          /\ result.endpoints = NormalizedOf(content.doc, source).endpoints
          /\ result.auth = NormalizedOf(content.doc, source).auth
          /\ result.schemas = NormalizedOf(content.doc, source).schemas

-----------------------------------------------------------------------------
(* Documents of one parameter that vary in its examples *)

\* the values of a parameter's `example` key
ExampleOptions ==
    { Absent, Num(0), Num(7), Bool(FALSE), Bool(TRUE), Str(""), Str("rex"),
      List(<<>>), List(<<Str("rex")>>) }

\* the values of a parameter's `schema` key: none, without and with an example
ExampleSchemaOptions ==
    { Absent,
      Map(<< <<"type", Str("integer")>> >>),
      Map(<< <<"type", Str("integer")>>, <<"example", Num(5)>> >>),
      Map(<< <<"type", Str("integer")>>, <<"example", Num(0)>> >>) }

ExampleDocs ==
    { DocOf(Map(<< <<"/pets",
                     Map(<< <<"get",
                              Map(<< <<"parameters",
                                       List(<< MkMap(<< <<"name", Str("limit")>>,
                                                        <<"in", Str("query")>>,
                                                        <<"example", ex>>,
                                                        <<"schema", sch>> >>) >>)>> >>)>> >>)>> >>)) :
        ex \in ExampleOptions, sch \in ExampleSchemaOptions }

InitExamples == InitFile(ExampleDocs)

SpecExamples == InitExamples /\ [][NextFile]_vars

\* C18: the example of every parameter is the parameter-level example whenever
\* the parameter declares one, whatever its value (0, false and "" included) and
\* whatever the schema declares; it is the schema-level example only when the
\* parameter declares none, and there is none when neither is declared.
C18_ExamplePreference ==
    pc = "done" =>
        \A j \in 1..Len(result.endpoints) :
            LET e == result.endpoints[j]
                declared == DeclaredParams(OperationOf(e))
            IN /\ Len(e.parameters) = Len(declared)
               /\ \A i \in 1..Len(declared) :
                     e.parameters[i].example =
                        IF HasKey(declared[i], "example")
                        THEN Get(declared[i], "example", Null)
                        ELSE Get(Get(declared[i], "schema", Map(<<>>)), "example", Null)

-----------------------------------------------------------------------------
(* generators/python.py: PythonGenerator *)

\* the parser and its environment
parser == <<source, fs, net, content, spec, pc, io, phases, servers, endpoints,
            auth, schemas, result, error, runs, callers>>

\* NormalizedAPISpec.primary_server
PrimaryServer(m) ==
    IF Truthy(m.base_url) THEN m.base_url
    ELSE IF m.servers # <<>> THEN m.servers[1].url
    ELSE Null

\* ValidateSpec without the test of the primary server
ValidateSpecEndpointsOnly(m) == m.endpoints # <<>>

\* PythonGenerator.validate_spec
ValidateSpec(m) ==
    IF m.endpoints = <<>> THEN FALSE
    ELSE IF ~Truthy(PrimaryServer(m)) THEN FALSE
    ELSE TRUE

\* generate: the output directory is made, then the model is validated
GenerateValidate ==
    /\ gen_pc = "start"
    /\ output_dir' = "dir"
    /\ IF ~ValidateSpec(api_spec)
       THEN gen_pc' = "failed" /\ gen_error' = "GeneratorError"
       ELSE gen_pc' = "valid" /\ gen_error' = gen_error
    /\ UNCHANGED <<api_spec, output>>
    /\ UNCHANGED parser

\* (output_dir / name).write_text(output): a file is rendered and written
WriteText(name) ==
    /\ output' = Append(output, name)
    /\ UNCHANGED <<api_spec, output_dir, gen_error>>
    /\ UNCHANGED parser

\* generate: self._generate_server(output_path)
GenerateServer ==
    /\ gen_pc = "valid"
    /\ WriteText("server.py")
    /\ gen_pc' = "server"

\* generate: self._generate_pyproject(output_path)
GeneratePyproject ==
    /\ gen_pc = "server"
    /\ WriteText("pyproject.toml")
    /\ gen_pc' = "pyproject"

\* generate: self._generate_readme(output_path)
GenerateReadme ==
    /\ gen_pc = "pyproject"
    /\ WriteText("README.md")
    /\ gen_pc' = "readme"

\* generate: self._generate_env_example(output_path)
GenerateEnvExample ==
    /\ gen_pc = "readme"
    /\ WriteText(".env.example")
    /\ gen_pc' = "env"

\* generate: the summary is printed and the call returns
GenerateReturn ==
    /\ gen_pc = "env"
    /\ gen_pc' = "done"
    /\ UNCHANGED <<api_spec, output_dir, output, gen_error>>
    /\ UNCHANGED parser

NextGenerate ==
    \/ GenerateValidate
    \/ GenerateServer
    \/ GeneratePyproject
    \/ GenerateReadme
    \/ GenerateEnvExample
    \/ GenerateReturn

\* ServerConfig with the given url
ServerAt(url) == [url |-> Str(url), description |-> Null, variables |-> Map(<<>>)]

\* models built by hand, as the generator's test does: base_url and servers are
\* set independently, the endpoints may be none
GeneratorModels ==
    { [ name |-> Str("Test API"), version |-> Str("1.0.0"), description |-> Null,
        servers |-> ss, endpoints |-> es, auth |-> Null, schemas |-> Props(<<>>),
        source_format |-> "unknown", source_url |-> Null, base_url |-> base ] :
        base \in { Null, Str(""), Str("https://api.example.com") },
        ss \in { <<>>, <<ServerAt("")>>, <<ServerAt("https://a.example.com")>>,
                 <<ServerAt(""), ServerAt("https://b.example.com")>> },
        es \in { <<>>, <<BuildEndpoint("/pets", "GET", Map(<<>>))>>,
                 <<BuildEndpoint("/pets", "GET", Map(<<>>)),
                   BuildEndpoint("/pets/{petId}", "DELETE", Map(<<>>))>> } }

\* a generator built on a model, generate() called, no parser at work
InitGenerate ==
    /\ source = "api.yaml"
    /\ fs = "missing"
    /\ net = [connect |-> FALSE, delay |-> 0, status |-> 0]
    /\ content = BadText
    /\ spec = Null /\ pc = "start" /\ io = <<>> /\ phases = <<>>
    /\ servers = <<>> /\ endpoints = <<>> /\ auth = Null /\ schemas = Props(<<>>)
    /\ result = Null /\ error = "none" /\ runs = <<>>
    /\ NoCallers
    /\ api_spec \in GeneratorModels
    /\ output_dir \in {"missing", "dir"}
    /\ output = <<>>
    /\ gen_pc = "start"
    /\ gen_error = "none"

SpecGenerate == InitGenerate /\ [][NextGenerate]_vars

\* the files generate() writes, in order
GeneratedFiles == <<"server.py", "pyproject.toml", "README.md", ".env.example">>

\* the model has endpoints and a primary server: a non-empty base_url, else a
\* first server with a non-empty URL
Usable(m) ==
    /\ Len(m.endpoints) > 0
    /\ \/ m.base_url \notin {Null, Str("")}
       \/ Len(m.servers) > 0 /\ m.servers[1].url # Str("")

\* C19: validate_spec() is True exactly for a model with endpoints and a
\* resolvable primary server; generate() ends in GeneratorError, with nothing
\* written, on every other model, and on a model that passes it writes
\* server.py, pyproject.toml, README.md and .env.example, in that order.
C19_GeneratorGate ==
    /\ ValidateSpec(api_spec) <=> Usable(api_spec)
    /\ gen_pc # "start" =>
          IF Usable(api_spec)
          THEN gen_pc # "failed" /\ gen_error = "none" /\ IsPrefix(output, GeneratedFiles)
          ELSE gen_pc = "failed" /\ gen_error = "GeneratorError" /\ output = <<>>
    /\ gen_pc = "done" => output = GeneratedFiles

\* a model with an empty base_url and a first server with a URL: the four files
C19_Witness ==
    /\ gen_pc = "done"
    /\ api_spec.base_url = Str("")
    /\ api_spec.servers[1].url = Str("https://a.example.com")
    /\ output = GeneratedFiles

\* a model with endpoints whose first server has no URL, the second one has:
\* GeneratorError
C19_WitnessRefused ==
    /\ gen_pc = "failed"
    /\ gen_error = "GeneratorError"
    /\ Len(api_spec.endpoints) = 2
    /\ api_spec.base_url = Null
    /\ Len(api_spec.servers) = 2
    /\ output = <<>>

-----------------------------------------------------------------------------
(* Documents of one operation on the paths of the tool_name docstring *)

DocstringPaths == { "/users", "/users/{id}", "/pets", "/pets/{petId}" }

DocstringDocs ==
    { DocOf(Map(<< <<path, Map(<< <<method, MkMap(<< <<"operationId", id>> >>)>> >>)>> >>)) :
        path \in DocstringPaths, method \in ItemKeys \ {"parameters"},
        id \in { Absent, Str("getUser") } }

InitDocstring == InitFile(DocstringDocs)

SpecDocstring == InitDocstring /\ [][NextFile]_vars

\* the names the docstring of tool_name gives, and the singular names of the
\* pet store
DocumentedName(method, path) ==
    CASE method = "GET" /\ path = "/users" -> "list_users"
      [] method = "GET" /\ path = "/users/{id}" -> "get_user"
      [] method = "POST" /\ path = "/users" -> "create_user"
      [] method = "PUT" /\ path = "/users/{id}" -> "update_user"
      [] method = "DELETE" /\ path = "/users/{id}" -> "delete_user"
      [] method = "POST" /\ path = "/pets" -> "create_pet"
      [] method = "GET" /\ path = "/pets/{petId}" -> "get_pet"
      [] OTHER -> ""

\* C20: an endpoint without operationId has the tool name the docstring of
\* tool_name gives for its method and path: list_users for GET /users, get_user
\* for GET /users/{id}, create_user for POST /users, update_user for
\* PUT /users/{id}, delete_user for DELETE /users/{id}; likewise create_pet and
\* get_pet for the pet store.
C20_DocumentedNames ==
    pc = "done" =>
        \A j \in 1..Len(result.endpoints) :
            LET e == result.endpoints[j] IN
            (e.operation_id = Null /\ DocumentedName(e.method, e.path) # "")
                => ToolName(e) = DocumentedName(e.method, e.path)

-----------------------------------------------------------------------------
(* generate(): the output location of a refused model *)

\* C24: a call of generate() that ends in GeneratorError leaves the output
\* location as it found it: the step that refuses the model neither makes the
\* output directory nor writes a file.
C24_ValidateBeforeEffects ==
    [][gen_pc' = "failed" => (output_dir' = output_dir /\ output' = output)]_vars

-----------------------------------------------------------------------------
(* The nested schema of a parameter *)

\* C22: after a parse every parameter carries in its field `schema` the
\* PropertySchema built from the schema it declares (from an empty one when it
\* declares none) under the parameter's own name; the field is never None.
C22_ParameterSchema ==
    pc = "done" =>
        \A j \in 1..Len(result.endpoints) :
            LET e == result.endpoints[j]
                declared == DeclaredParams(OperationOf(e))
            IN /\ Len(e.parameters) = Len(declared)
               /\ \A i \in 1..Len(declared) :
                     /\ e.parameters[i].schema # Null
                     /\ e.parameters[i].schema =
                           BuildPropertySchema(Get(declared[i], "name", Str("")).s,
                                               Get(declared[i], "schema", Map(<<>>)))

-----------------------------------------------------------------------------
(* NormalizedAPISpec.get_endpoint_by_name on the model a parse returned *)

RECURSIVE LastNamedFrom(_, _, _)
\* the position of the last endpoint of es[1..i] with the given tool name
LastNamedFrom(es, name, i) ==
    IF i = 0 THEN 0
    ELSE IF ToolName(es[i]) = name THEN i
    ELSE LastNamedFrom(es, name, i - 1)

\* GetEndpointByName that keeps the last endpoint of the name
GetEndpointByNameLast(m, name) == LastNamedFrom(m.endpoints, name, Len(m.endpoints))

RECURSIVE GetEndpointByNameFrom(_, _, _)
\* the loop of get_endpoint_by_name from the i-th endpoint on
GetEndpointByNameFrom(es, name, i) ==
    IF i > Len(es) THEN 0
    ELSE IF ToolName(es[i]) = name THEN i
    ELSE GetEndpointByNameFrom(es, name, i + 1)

\* get_endpoint_by_name: the endpoint returned is an element of the list, given
\* here by its position; 0 stands for None
GetEndpointByName(m, name) == GetEndpointByNameFrom(m.endpoints, name, 1)

\* the names asked for: the tool names of the model, and the operationId as
\* the test asks for it
LookupNames(m) ==
    { ToolName(m.endpoints[i]) : i \in 1..Len(m.endpoints) } \cup { "listPets" }

\* spec.get_endpoint_by_name(name) on the returned model
ModelGetEndpointByName ==
    /\ pc = "done"
    /\ \E name \in LookupNames(result) :
          lookup' = [name |-> name, at |-> GetEndpointByName(result, name)]
    /\ UNCHANGED <<source, fs, net, content, spec, pc, io, phases, servers,
                   endpoints, auth, schemas, result, error, runs, generator,
                   call2>>

\* the operationId of an operation of the family
LookupIds == { Absent, Str("listPets"), Str("list_pets") }

\* GET and POST /pets and GET /store/pets, with or without operationId: the
\* derived names of the two GETs are the same, the given ones may be
LookupDocs ==
    { DocOf(Map(<< <<"/pets", MkMap(<< <<"get", MkMap(<< <<"operationId", a>> >>)>>,
                                      <<"post", b>> >>)>>,
                   <<"/store/pets",
                     Map(<< <<"get", MkMap(<< <<"operationId", c>> >>)>> >>)>> >>)) :
        a \in LookupIds, c \in LookupIds,
        b \in { Absent } \cup { MkMap(<< <<"operationId", id>> >>) : id \in LookupIds } }

InitLookup == InitFile(LookupDocs)

NextLookup == NextFile \/ ModelGetEndpointByName

SpecLookup == InitLookup /\ [][NextLookup]_vars

\* C23: get_endpoint_by_name(name) returns the first endpoint, in list order,
\* whose tool name is name, and None when there is none, and the model stays
\* the one the parse returned; for every endpoint e of the model the lookup of
\* e's tool name returns an endpoint of that name, which is e itself exactly
\* when no endpoint before e has the same tool name.
C23_LookupByName ==
    pc = "done" =>
        LET es == result.endpoints IN
        /\ result = NormalizedOf(spec, source)
        /\ lookup # Null =>
              /\ lookup.at \in 0..Len(es)
              /\ lookup.at = 0 <=> \A i \in 1..Len(es) : ToolName(es[i]) # lookup.name
              /\ lookup.at # 0 =>
                    /\ ToolName(es[lookup.at]) = lookup.name
                    /\ \A i \in 1..(lookup.at - 1) : ToolName(es[i]) # lookup.name
        /\ \A i \in 1..Len(es) :
              LET at == GetEndpointByName(result, ToolName(es[i])) IN
              /\ at # 0
              /\ ToolName(es[at]) = ToolName(es[i])
              /\ at = i <=> \A k \in 1..(i - 1) : ToolName(es[k]) # ToolName(es[i])

\* the name looked up is that of the first and of the last endpoint: the first
\* one is returned
C23_Witness ==
    /\ pc = "done"
    /\ lookup # Null
    /\ Len(result.endpoints) = 3
    /\ lookup.at = 1
    /\ ToolName(result.endpoints[3]) = lookup.name
    /\ ToolName(result.endpoints[2]) # lookup.name

\* the operationId listPets looked up as written: the tool name is lowercased,
\* None is returned
C23_WitnessNone ==
    /\ pc = "done"
    /\ lookup # Null
    /\ lookup.name = "listPets"
    /\ lookup.at = 0
    /\ result.endpoints[1].operation_id = Str("listPets")

-----------------------------------------------------------------------------
(* Documents of one component schema nested to a given depth *)

\* the nesting depth of the schemas of the family
MaxDepth == 2

StringSchema == Map(<< <<"type", Str("string")>> >>)

RECURSIVE NestedSchemas(_)
\* the schemas nested at most d deep: a string; an object of one property; an
\* object of two properties with the list of its required names; a schema that
\* has properties and no type; an array
NestedSchemas(d) ==
    IF d = 0 THEN { StringSchema }
    ELSE LET inner == NestedSchemas(d - 1) IN
         { StringSchema }
         \cup { Map(<< <<"type", Str("object")>>,
                       <<"properties", Map(<< <<"a", c>> >>)>> >>) : c \in inner }
         \cup { Map(<< <<"type", Str("object")>>,
                       <<"required", List(<<Str("a")>>)>>,
                       <<"properties", Map(<< <<"a", StringSchema>>, <<"b", c>> >>)>> >>) :
                  c \in inner }
         \cup { Map(<< <<"properties", Map(<< <<"a", c>> >>)>> >>) : c \in inner }
         \cup { Map(<< <<"type", Str("array")>>, <<"items", c>> >>) : c \in inner }

NestedDocs ==
    { Map(<< <<"openapi", Str("3.0.3")>>, <<"info", PetInfo>>, <<"paths", Map(<<>>)>>,
             <<"components", Map(<< <<"schemas", Map(<< <<"Pet", pet>> >>)>> >>)>> >>) :
        pet \in NestedSchemas(MaxDepth) }

InitNested == InitFile(NestedDocs)

\* a parse() that is not suspended runs on: after a load from a file the call
\* has no await left
SpecNested == InitNested /\ [][NextFile]_vars /\ WF_vars(NextFile)

\* the place of a nested schema: the keys that lead to it from the schema of
\* the component, <<"properties", name>> or <<"items", "">> at each level
Under(step, places) == { <<step>> } \cup { <<step>> \o place : place \in places }

RECURSIVE NodePlaces(_)
\* the places of all the schema nodes nested in a source schema
NodePlaces(schema) ==
    LET declared == Get(schema, "properties", Map(<<>>)).kv IN
    UNION { Under(<<"properties", declared[i][1]>>, NodePlaces(declared[i][2])) :
              i \in 1..Len(declared) }
    \cup (IF HasKey(schema, "items")
          THEN Under(<<"items", "">>, NodePlaces(Get(schema, "items", Null)))
          ELSE {})

RECURSIVE DescentPlaces(_)
\* the places below a property's source schema that are the properties of an
\* object-typed schema or the items of an array-typed one, at every level
DescentPlaces(schema) ==
    LET declared == Get(schema, "properties", Map(<<>>)).kv IN
    (IF Get(schema, "type", Absent) = Str("object")
     THEN UNION { Under(<<"properties", declared[i][1]>>, DescentPlaces(declared[i][2])) :
                    i \in 1..Len(declared) }
     ELSE {})
    \cup (IF Get(schema, "type", Absent) = Str("array") /\ HasKey(schema, "items")
          THEN Under(<<"items", "">>, DescentPlaces(Get(schema, "items", Null)))
          ELSE {})

\* the same below the schema of a component: its properties whatever its type,
\* never its items
ReachedPlaces(schema) ==
    LET declared == Get(schema, "properties", Map(<<>>)).kv IN
    UNION { Under(<<"properties", declared[i][1]>>, DescentPlaces(declared[i][2])) :
              i \in 1..Len(declared) }

RECURSIVE NestedPlaces(_)
\* the places of the PropertySchema objects nested in a PropertySchema: one
\* object per call of _build_property_schema
NestedPlaces(p) ==
    (IF p.properties # Null
     THEN UNION { Under(<<"properties", p.properties.kv[i][1]>>,
                        NestedPlaces(p.properties.kv[i][2])) :
                    i \in 1..Len(p.properties.kv) }
     ELSE {})
    \cup (IF p.items # Null THEN Under(<<"items", "">>, NestedPlaces(p.items)) ELSE {})

\* the places of the PropertySchema objects of a SchemaModel
BuiltPlaces(m) ==
    UNION { Under(<<"properties", m.properties.kv[i][1]>>,
                  NestedPlaces(m.properties.kv[i][2])) :
              i \in 1..Len(m.properties.kv) }

\* the depth of the deepest place
Deepest(places) ==
    IF places = {} THEN 0
    ELSE LET deep == CHOOSE place \in places : \A q \in places : Len(q) <= Len(place)
         IN Len(deep)

\* the schema models of the returned model against the source schemas
SchemasBuilt(Visited(_)) ==
    pc = "done" =>
        /\ Len(result.schemas.kv) = Len(DocSchemas)
        /\ \A i \in 1..Len(DocSchemas) :
              LET built == BuiltPlaces(result.schemas.kv[i][2])
                  source_schema == DocSchemas[i][2]
              IN /\ built = Visited(source_schema)
                 /\ Deepest(built) = Deepest(Visited(source_schema))
                 /\ Deepest(built) <= Deepest(NodePlaces(source_schema))

\* parse() has returned or raised
Ended == pc \in {"done", "failed"}

\* C25 as stated: when the parse returns, there is one PropertySchema for every
\* schema node nested in a component's schema, and the depth of the built
\* schemas is the nesting depth of the source.
C25_AsClaimed == SchemasBuilt(NodePlaces)

\* C25: when the parse returns, there is exactly one PropertySchema for every
\* schema node reached from a component's schema through its properties, the
\* properties of object-typed schemas and the items of array-typed ones, and none
\* for any other node; the recursion is as deep as these nodes lie, at most the
\* nesting depth of the source; every parse() returns or fails.
C25_SchemaTermination == [](SchemasBuilt(ReachedPlaces)) /\ <>Ended

\* a returned model of an object with a string and an object of one property:
\* three PropertySchema objects, the deepest one built by a nested call
C25_Witness ==
    /\ pc = "done"
    /\ Deepest(BuiltPlaces(result.schemas.kv[1][2])) = 2
    /\ BuiltPlaces(result.schemas.kv[1][2]) = NodePlaces(DocSchemas[1][2])
    /\ Cardinality(BuiltPlaces(result.schemas.kv[1][2])) = 3

\* a returned model of an array of arrays: nothing below the component's schema
\* is built
C25_WitnessSkipped ==
    /\ pc = "done"
    /\ BuiltPlaces(result.schemas.kv[1][2]) = {}
    /\ Deepest(NodePlaces(DocSchemas[1][2])) = 2

-----------------------------------------------------------------------------
(* Two parse() calls on one parser, interleaved by the event loop *)

\* the documents the URL delivers, valid or not, one with a scheme whose
\* location is no ParameterLocation
InterleavedDocs ==
    { MkMap(<< <<"openapi", Str("3.0.3")>>, <<"info", i>>, <<"servers", PetServers>>,
               <<"paths", p>>, <<"components", c>> >>) :
        i \in { Absent, PetInfo },
        p \in { Map(<<>>), PetPaths },
        c \in { Absent, BearerComponents, BadKeyComponents } }

InterleavedTexts == { Text("json", d) : d \in InterleavedDocs }

\* every position of parse() taken for a point where the event loop may run
\* another call
SuspendedAnywhere == TRUE

\* the call followed step by step is not running: it has not begun, it is
\* suspended in `await client.get(...)` or, the response decoded and stored, in
\* the exit of `async with httpx.AsyncClient()`, or it has ended. parse() has no
\* await after `await self._load_spec()`
Suspended ==
    \/ pc \in {"start", "awaiting", "done", "failed"}
    \/ pc = "loaded" /\ IsUrl(source)

\* parse() from the validation to the return, on the stored document
ParseStored(doc, src) ==
    LET v == Validate(doc) IN
    IF v = "False" THEN [exc |-> "ParserValidationError", val |-> Null]
    ELSE IF v # "True" THEN [exc |-> v, val |-> Null]
    ELSE IF ExtractEndpoints(doc).exc # "none"
         THEN [exc |-> ExtractEndpoints(doc).exc, val |-> Null]
    ELSE IF ExtractAuth(doc).exc # "none"
         THEN [exc |-> ExtractAuth(doc).exc, val |-> Null]
    ELSE IF ExtractSchemas(doc).exc # "none"
         THEN [exc |-> ExtractSchemas(doc).exc, val |-> Null]
    ELSE [exc |-> "none", val |-> NormalizedOf(doc, src)]

\* the second call begins and is suspended in its GET
SecondLoadSend ==
    /\ call2.pc = "none"
    /\ IsUrl(source)
    /\ Suspended
    /\ call2' = [call2 EXCEPT !.pc = "awaiting"]
    /\ UNCHANGED <<source, fs, net, content, spec, pc, io, phases, servers,
                   endpoints, auth, schemas, result, error, runs, generator,
                   lookup>>

\* the GET of the second call ends: the text the URL delivers by then is decoded
\* and stored in self.spec, and the call is suspended in the exit of the client
SecondLoadReceive ==
    /\ call2.pc = "awaiting"
    /\ Suspended
    /\ IF RaisesHTTPError(net)
       THEN /\ call2' = [pc |-> "failed", result |-> Null, error |-> "ParserNetworkError"]
            /\ spec' = spec
       ELSE \E text \in InterleavedTexts :
               LET r == DecodeUrl(text) IN
               IF r.exc = "none"
               THEN spec' = r.doc /\ call2' = [call2 EXCEPT !.pc = "loaded"]
               ELSE /\ call2' = [pc |-> "failed", result |-> Null, error |-> r.exc]
                    /\ spec' = spec
    /\ UNCHANGED <<source, fs, net, content, pc, io, phases, servers,
                   endpoints, auth, schemas, result, error, runs, generator,
                   lookup>>

\* the second call runs from the end of its load to its return or exception
SecondParse ==
    /\ call2.pc = "loaded"
    /\ Suspended
    /\ LET r == ParseStored(spec, source) IN
       call2' = IF r.exc = "none"
                THEN [pc |-> "done", result |-> r.val, error |-> "none"]
                ELSE [pc |-> "failed", result |-> Null, error |-> r.exc]
    /\ UNCHANGED <<source, fs, net, content, spec, pc, io, phases, servers,
                   endpoints, auth, schemas, result, error, runs, generator,
                   lookup>>

\* a parser on a URL that answers, or answers 404
InitInterleaved ==
    /\ source = "https://api.example.com/openapi.json"
    /\ fs = "missing"
    /\ net \in { [connect |-> TRUE, delay |-> 1, status |-> 200],
                 [connect |-> TRUE, delay |-> 1, status |-> 404] }
    /\ content \in InterleavedTexts
    /\ Fresh

NextInterleaved ==
    \/ ParseLoadSend
    \/ ParseLoadReceive
    \/ ParseValidate
    \/ ParseExtractServers
    \/ ParseExtractEndpoints
    \/ ParseExtractAuth
    \/ ParseExtractSchemas
    \/ ParseReturn
    \/ SecondLoadSend
    \/ SecondLoadReceive
    \/ SecondParse

SpecInterleaved == InitInterleaved /\ [][NextInterleaved]_vars

\* the positions of parse() between its validation and its return
Extracting == {"validated", "servers", "endpoints", "auth", "schemas"}

\* C21: when two parse() calls on one parser are interleaved, the stored
\* document does not change while a call is between its validation and its
\* return, the validation itself leaves it as it reads it, and the model a call
\* returns is the one built from the stored document of that moment, which
\* passes validation: validate() and all the extraction steps of the call have
\* read this one value.
C21_SingleDocument ==
    [][ /\ pc \in Extracting => spec' = spec
        /\ (pc = "loaded" /\ pc' # "loaded") => spec' = spec
        /\ (pc # "done" /\ pc' = "done") =>
              /\ Validate(spec) = "True"
              /\ result' = NormalizedOf(spec, source)
        /\ (call2.pc # "done" /\ call2'.pc = "done") =>
              /\ spec' = spec
              /\ Validate(spec) = "True"
              /\ call2'.result = NormalizedOf(spec, source) ]_vars

\* both calls have returned, the first one a model of the document the second
\* call stored, not of the one its own GET delivered
C21_Witness ==
    /\ pc = "done"
    /\ call2.pc = "done"
    /\ spec # content.doc
    /\ result = NormalizedOf(spec, source)
    /\ result # NormalizedOf(content.doc, source)

\* the two calls have returned different models
C21_WitnessDiffer ==
    /\ pc = "done"
    /\ call2.pc = "done"
    /\ result # call2.result

=============================================================================
